---------------------------- MODULE Spec2Model ----------------------------
(***************************************************************************)
(* Model of the bookmark metadata extractor (src/src/lib/entry.rs).        *)
(*                                                                         *)
(* A string is a sequence of atoms: a whitespace character, "@", "#", "/", *)
(* or a word the code never looks inside.  Option<T> is a sequence of      *)
(* length 0 (None) or 1 (Some).  An HTML document is a tree of elements    *)
(* (tag, attributes, classes, own text, children) under <head> and <body>. *)
(***************************************************************************)
EXTENDS Integers, Sequences, FiniteSets, TLC

(***************************************************************************)
(* Bounds                                                                  *)
(***************************************************************************)
\* Largest number of top-level elements drawn for one document.
MaxElems == 2

\* The longest string collapse_ws is applied to on its own.
MaxLen == 5

(***************************************************************************)
(* Option<T>                                                               *)
(***************************************************************************)
None == <<>>

Some(x) == <<x>>

unwrap_or_default(o, d) == IF o = None THEN d ELSE o[1]

(***************************************************************************)
(* Characters and strings                                                  *)
(***************************************************************************)
\* char::is_whitespace on the characters the model draws
is_whitespace(ch) == ch \in {" ", "\n", "\t"}

RECURSIVE trim_start(_)
trim_start(s) ==
    IF s = <<>> THEN <<>>
    ELSE IF is_whitespace(Head(s)) THEN trim_start(Tail(s)) ELSE s

RECURSIVE trim_end(_)
trim_end(s) ==
    IF s = <<>> THEN <<>>
    ELSE IF is_whitespace(s[Len(s)]) THEN trim_end(SubSeq(s, 1, Len(s) - 1)) ELSE s

\* str::trim
trim(s) == trim_end(trim_start(s))

\* The loop of collapse_ws: out and was_space after the first n characters.
RECURSIVE collapse_loop(_, _, _)
collapse_loop(s, out, was_space) ==
    IF s = <<>> THEN out
    ELSE IF is_whitespace(Head(s))
         THEN collapse_loop(Tail(s), IF was_space THEN out ELSE Append(out, " "), TRUE)
         ELSE collapse_loop(Tail(s), Append(out, Head(s)), FALSE)

\* collapse_ws without the final trim.
collapse_ws_untrimmed(s) == collapse_loop(s, <<>>, FALSE)

collapse_ws(s) == trim(collapse_loop(s, <<>>, FALSE))

\* The normal form the specification promises for every extracted text.
IsNormalized(s) ==
    /\ \A i \in 1..Len(s) : is_whitespace(s[i]) => s[i] = " "
    /\ s # <<>> => ~is_whitespace(s[1]) /\ ~is_whitespace(s[Len(s)])
    /\ \A i \in 1..(Len(s) - 1) : ~(is_whitespace(s[i]) /\ is_whitespace(s[i + 1]))


(***************************************************************************)
(* JSON values (serde_json::Value).  Every value is a record of one shape: *)
(* t is the variant, s the text of a String, b the value of a Bool and m   *)
(* the items of an Array or the members [k, v] of an Object in the order   *)
(* the map iterates them.                                                  *)
(***************************************************************************)
JNull == [t |-> "null", s |-> <<>>, b |-> FALSE, m |-> <<>>]

JStr(s) == [t |-> "str", s |-> s, b |-> FALSE, m |-> <<>>]

JBool(b) == [t |-> "bool", s |-> <<>>, b |-> b, m |-> <<>>]

JArr(a) == [t |-> "arr", s |-> <<>>, b |-> FALSE, m |-> a]

JObj(m) == [t |-> "obj", s |-> <<>>, b |-> FALSE, m |-> m]

KV(k, v) == [k |-> k, v |-> v]

\* Map::get / Value::get: the member of an object with that key, if any.
get(v, key) ==
    IF v.t = "obj" /\ \E i \in 1..Len(v.m) : v.m[i].k = key
    THEN Some(v.m[CHOOSE i \in 1..Len(v.m) : v.m[i].k = key].v)
    ELSE None

\* Value::as_str on an Option<&Value>
as_str(o) == IF o # None /\ o[1].t = "str" THEN Some(o[1].s) ELSE None

\* Value::as_bool on an Option<&Value>
as_bool(o) == IF o # None /\ o[1].t = "bool" THEN Some(o[1].b) ELSE None

(***************************************************************************)
(* HTML documents (scraper::Html).  An element has a tag, attributes, a    *)
(* set of classes, its own text and child elements; json is the outcome of *)
(* serde_json::from_str on the element's text (None: not JSON).            *)
(***************************************************************************)
NoAttrs == [a \in {} |-> <<>>]

El(tag, attrs, cls, text, kids) ==
    [tag |-> tag, attrs |-> attrs, cls |-> cls, text |-> text, kids |-> kids, json |-> None]

\* Element::attr
attr(e, a) == IF a \in DOMAIN e.attrs THEN Some(e.attrs[a]) ELSE None

HasAttr(e, a, v) == a \in DOMAIN e.attrs /\ e.attrs[a] = v

\* ElementRef::text().collect::<String>(): the text of the element and of
\* its descendants in document order.
RECURSIVE text_of(_)
RECURSIVE text_of_all(_)
text_of(e) == e.text \o text_of_all(e.kids)

text_of_all(es) == IF es = <<>> THEN <<>> ELSE text_of(Head(es)) \o text_of_all(Tail(es))

\* The elements below a list of siblings in document order, each with its
\* ancestors (outermost first).
RECURSIVE flatten(_, _)
flatten(es, anc) ==
    IF es = <<>> THEN <<>>
    ELSE <<[e |-> Head(es), anc |-> anc]>>
         \o flatten(Head(es).kids, Append(anc, Head(es)))
         \o flatten(Tail(es), anc)

\* Html::parse_document: the tree under <head> and <body>, and its elements
\* in document order.
parse_document(head, body) ==
    [head |-> head, body |-> body,
     nodes |-> flatten(<<El("head", NoAttrs, {}, <<>>, head),
                         El("body", NoAttrs, {}, <<>>, body)>>, <<>>)]

\* Html::select iterates every element of the document in document order.
Nodes(doc) == doc.nodes

\* ElementRef::select iterates the descendants of the element, not itself.
NodesIn(n) == flatten(n.e.kids, Append(n.anc, n.e))

InTag(n, tag) == \E i \in 1..Len(n.anc) : n.anc[i].tag = tag

InClass(n, c) == \E i \in 1..Len(n.anc) : c \in n.anc[i].cls

ChildOfTag(n, tag) == n.anc # <<>> /\ n.anc[Len(n.anc)].tag = tag

\* [itemscope][itemtype*="schema.org/<T>"] as an ancestor
InItemScope(n, types) ==
    \E i \in 1..Len(n.anc) :
        /\ "itemscope" \in DOMAIN n.anc[i].attrs
        /\ "itemtype" \in DOMAIN n.anc[i].attrs
        /\ n.anc[i].attrs["itemtype"] \in types

\* str::to_ascii_lowercase on the meta names the model draws
to_ascii_lowercase(name) ==
    CASE name = "DC.Title" -> "dc.title"
      [] name = "DCTERMS.title" -> "dcterms.title"
      [] name = "DC.Creator" -> "dc.creator"
      [] name = "DC.Description" -> "dc.description"
      [] name = "Description" -> "description"
      [] OTHER -> name

\* A parsed selector: a compound (tag, classes, one attribute test) and an
\* optional test on the ancestors.  tag "" matches any tag, op "" tests no
\* attribute, "=" tests equality and "~=" a word of the attribute's list.
Compound(tag, cls, key, op, val, up) ==
    [tag |-> tag, cls |-> cls, key |-> key, op |-> op, val |-> val, up |-> up]

Up(rel, arg) == [rel |-> rel, arg |-> arg]

NoUp == Up("", "")

\* The item types the model draws that contain the given text.
ItemTypes(part) ==
    IF part = "schema.org/WebSite" THEN {"https://schema.org/WebSite"}
    ELSE IF part = "schema.org/Organization"
         THEN {"https://schema.org/Organization", "https://schema.org/NewsMediaOrganization"}
         ELSE {}

\* Selector::parse for the selectors of entry.rs; all of them parse.  The
\* quotes around attribute values are left out of the keys.
Selectors ==
    "head > title" :>
        Compound("title", {}, "", "", "", Up("child-tag", "head")) @@
    "head meta" :>
        Compound("meta", {}, "", "", "", Up("tag", "head")) @@
    "head meta[property=og:title]" :>
        Compound("meta", {}, "property", "=", "og:title", Up("tag", "head")) @@
    "head meta[name=twitter:title]" :>
        Compound("meta", {}, "name", "=", "twitter:title", Up("tag", "head")) @@
    "head meta[property=og:site_name]" :>
        Compound("meta", {}, "property", "=", "og:site_name", Up("tag", "head")) @@
    "head meta[name=application-name]" :>
        Compound("meta", {}, "name", "=", "application-name", Up("tag", "head")) @@
    "head meta[name=author]" :>
        Compound("meta", {}, "name", "=", "author", Up("tag", "head")) @@
    "head meta[property=article:author]" :>
        Compound("meta", {}, "property", "=", "article:author", Up("tag", "head")) @@
    "head meta[name=twitter:creator]" :>
        Compound("meta", {}, "name", "=", "twitter:creator", Up("tag", "head")) @@
    "head meta[property=og:description]" :>
        Compound("meta", {}, "property", "=", "og:description", Up("tag", "head")) @@
    "head meta[name=twitter:description]" :>
        Compound("meta", {}, "name", "=", "twitter:description", Up("tag", "head")) @@
    "script[type=application/ld+json]" :>
        Compound("script", {}, "type", "=", "application/ld+json", NoUp) @@
    "link[rel~=manifest]" :>
        Compound("link", {}, "rel", "~=", "manifest", NoUp) @@
    "a[rel~=author]" :>
        Compound("a", {}, "rel", "~=", "author", NoUp) @@
    "link[rel~=author]" :>
        Compound("link", {}, "rel", "~=", "author", NoUp) @@
    "[itemprop=headline]" :>
        Compound("", {}, "itemprop", "=", "headline", NoUp) @@
    "[itemprop=name]" :>
        Compound("", {}, "itemprop", "=", "name", NoUp) @@
    "[itemprop=author]" :>
        Compound("", {}, "itemprop", "=", "author", NoUp) @@
    "[itemprop=description]" :>
        Compound("", {}, "itemprop", "=", "description", NoUp) @@
    "[itemprop=abstract]" :>
        Compound("", {}, "itemprop", "=", "abstract", NoUp) @@
    "[property=schema:headline]" :>
        Compound("", {}, "property", "=", "schema:headline", NoUp) @@
    "[property=schema:name]" :>
        Compound("", {}, "property", "=", "schema:name", NoUp) @@
    "[property=dcterms:title]" :>
        Compound("", {}, "property", "=", "dcterms:title", NoUp) @@
    "[property=schema:author]" :>
        Compound("", {}, "property", "=", "schema:author", NoUp) @@
    "[property=schema:description]" :>
        Compound("", {}, "property", "=", "schema:description", NoUp) @@
    "[itemscope][itemtype*=schema.org/WebSite] [itemprop=name]" :>
        Compound("", {}, "itemprop", "=", "name", Up("itemtype", "schema.org/WebSite")) @@
    "[itemscope][itemtype*=schema.org/Organization] [itemprop=name]" :>
        Compound("", {}, "itemprop", "=", "name", Up("itemtype", "schema.org/Organization")) @@
    ".p-name" :>
        Compound("", {"p-name"}, "", "", "", NoUp) @@
    ".h-entry .p-name" :>
        Compound("", {"p-name"}, "", "", "", Up("class", "h-entry")) @@
    ".h-entry .entry-title" :>
        Compound("", {"entry-title"}, "", "", "", Up("class", "h-entry")) @@
    ".h-card .p-name" :>
        Compound("", {"p-name"}, "", "", "", Up("class", "h-card")) @@
    ".p-summary" :>
        Compound("", {"p-summary"}, "", "", "", NoUp) @@
    ".h-entry .p-summary" :>
        Compound("", {"p-summary"}, "", "", "", Up("class", "h-entry")) @@
    ".p-author" :>
        Compound("", {"p-author"}, "", "", "", NoUp) @@
    ".h-entry .p-author" :>
        Compound("", {"p-author"}, "", "", "", Up("class", "h-entry")) @@
    ".h-entry .author" :>
        Compound("", {"author"}, "", "", "", Up("class", "h-entry")) @@
    ".author.vcard" :>
        Compound("", {"author", "vcard"}, "", "", "", NoUp) @@
    "address" :>
        Compound("address", {}, "", "", "", NoUp) @@
    "article address" :>
        Compound("address", {}, "", "", "", Up("tag", "article")) @@
    "footer address" :>
        Compound("address", {}, "", "", "", Up("tag", "footer")) @@
    "head meta[property=og:image:secure_url]" :>
        Compound("meta", {}, "property", "=", "og:image:secure_url", Up("tag", "head")) @@
    "head meta[property=og:image:url]" :>
        Compound("meta", {}, "property", "=", "og:image:url", Up("tag", "head")) @@
    "head meta[property=og:image]" :>
        Compound("meta", {}, "property", "=", "og:image", Up("tag", "head")) @@
    "head meta[name=twitter:image]" :>
        Compound("meta", {}, "name", "=", "twitter:image", Up("tag", "head")) @@
    "head meta[name=twitter:image:src]" :>
        Compound("meta", {}, "name", "=", "twitter:image:src", Up("tag", "head")) @@
    "[itemprop=primaryImageOfPage]" :>
        Compound("", {}, "itemprop", "=", "primaryImageOfPage", NoUp) @@
    "[property=schema:primaryImageOfPage]" :>
        Compound("", {}, "property", "=", "schema:primaryImageOfPage", NoUp) @@
    "[itemprop=image]" :>
        Compound("", {}, "itemprop", "=", "image", NoUp) @@
    "[property=schema:image]" :>
        Compound("", {}, "property", "=", "schema:image", NoUp) @@
    ".u-featured" :>
        Compound("", {"u-featured"}, "", "", "", NoUp) @@
    ".h-entry .u-featured" :>
        Compound("", {"u-featured"}, "", "", "", Up("class", "h-entry")) @@
    ".u-photo" :>
        Compound("", {"u-photo"}, "", "", "", NoUp) @@
    ".h-entry .u-photo" :>
        Compound("", {"u-photo"}, "", "", "", Up("class", "h-entry")) @@
    "link[rel~=alternate]" :>
        Compound("link", {}, "rel", "~=", "alternate", NoUp) @@
    "link[rel=image_src]" :>
        Compound("link", {}, "rel", "=", "image_src", NoUp) @@
    "amp-story" :>
        Compound("amp-story", {}, "", "", "", NoUp)

MatchesCompound(c, e) ==
    /\ c.tag = "" \/ e.tag = c.tag
    /\ c.cls \subseteq e.cls
    /\ \/ c.op = ""
       \/ c.op = "=" /\ c.key \in DOMAIN e.attrs
                     /\ e.attrs[c.key] = (IF c.key = "rel" THEN {c.val} ELSE c.val)
       \/ c.op = "~=" /\ c.key \in DOMAIN e.attrs /\ c.val \in e.attrs[c.key]

MatchesUp(up, n) ==
    \/ up.rel = ""
    \/ up.rel = "child-tag" /\ ChildOfTag(n, up.arg)
    \/ up.rel = "tag" /\ InTag(n, up.arg)
    \/ up.rel = "class" /\ InClass(n, up.arg)
    \/ up.rel = "itemtype" /\ InItemScope(n, ItemTypes(up.arg))

\* Whether a node matches a parsed selector.
Matches(sel, n) == MatchesCompound(sel, n.e) /\ MatchesUp(sel.up, n)

\* The matches of a selector among a sequence of nodes, in document order.
select(nodes, css) == LET sel == Selectors[css] IN SelectSeq(nodes, LAMBDA n : Matches(sel, n))


(***************************************************************************)
(* Document accessors                                                      *)
(***************************************************************************)
\* Option::or_else
or_else(o, alt) == LET v == o IN IF v # None THEN v ELSE alt

\* Iterator::map(collapse_ws).find(|s| !s.is_empty())
find_non_empty(strs) ==
    LET c == SelectSeq([i \in 1..Len(strs) |-> collapse_ws(strs[i])], LAMBDA x : x # <<>>)
    IN  IF c = <<>> THEN None ELSE Some(c[1])

\* The values of an attribute over a sequence of nodes, skipping the nodes
\* that lack it (filter_map(|e| e.value().attr(attr))).
attr_values(nodes, a) ==
    LET has == SelectSeq(nodes, LAMBDA n : a \in DOMAIN n.e.attrs)
    IN  [i \in 1..Len(has) |-> has[i].e.attrs[a]]

first_text_of(nodes, css) ==
    LET m == select(nodes, css)
    IN  IF m = <<>> THEN None
        ELSE LET t == collapse_ws(text_of(m[1].e))
             IN  IF t = <<>> THEN None ELSE Some(t)

first_text(doc, css) == first_text_of(Nodes(doc), css)

first_text_in(n, css) == first_text_of(NodesIn(n), css)

first_attr(doc, css, a) == find_non_empty(attr_values(select(Nodes(doc), css), a))

\* The JSON-LD blocks of the document that parse, in document order.
json_ld_blocks(doc) ==
    LET sc == SelectSeq(select(Nodes(doc), "script[type=application/ld+json]"),
                        LAMBDA n : n.e.json # None)
    IN  [i \in 1..Len(sc) |-> sc[i].e.json[1]]

\* The values the walkers recurse into: the members of an object in map
\* order, the items of an array in order.
children(v) ==
    IF v.t = "obj" THEN [i \in 1..Len(v.m) |-> v.m[i].v]
    ELSE IF v.t = "arr" THEN v.m ELSE <<>>

\* if let Some(String(s)) = m.get(key) { let s = s.trim(); if !s.is_empty() { push } }
push_trimmed(v, key) ==
    LET o == as_str(get(v, key))
    IN  IF o # None /\ trim(o[1]) # <<>> THEN <<trim(o[1])>> ELSE <<>>

(***************************************************************************)
(* Title strategies                                                        *)
(***************************************************************************)
\* collect_schema_titles without the recursion into @graph and the members.
RECURSIVE collect_schema_titles_top_level(_)
collect_schema_titles_top_level(v) ==
    IF v.t = "obj"
    THEN push_trimmed(v, "headline") \o push_trimmed(v, "name")
         \o push_trimmed(v, "alternativeHeadline")
    ELSE IF v.t = "arr" /\ v.m # <<>>
    THEN collect_schema_titles_top_level(Head(v.m))
         \o collect_schema_titles_top_level(JArr(Tail(v.m)))
    ELSE <<>>

RECURSIVE collect_schema_titles(_)
RECURSIVE collect_schema_titles_each(_)
collect_schema_titles(v) ==
    IF v.t = "obj"
    THEN push_trimmed(v, "headline") \o push_trimmed(v, "name")
         \o push_trimmed(v, "alternativeHeadline")
         \o (IF get(v, "@graph") # None
             THEN collect_schema_titles(get(v, "@graph")[1]) ELSE <<>>)
         \o collect_schema_titles_each(children(v))
    ELSE IF v.t = "arr" THEN collect_schema_titles_each(children(v))
    ELSE <<>>

collect_schema_titles_each(vs) ==
    IF vs = <<>> THEN <<>>
    ELSE collect_schema_titles(Head(vs)) \o collect_schema_titles_each(Tail(vs))

json_ld_title(doc) == find_non_empty(collect_schema_titles_each(json_ld_blocks(doc)))

\* The loop of dublin_core_meta, dublin_core_description and meta_description
\* over "head meta": the first element whose lower-cased name is one of
\* names and whose content collapses to a non-empty string.
first_meta_named(doc, names) ==
    LET hit == SelectSeq(select(Nodes(doc), "head meta"),
                   LAMBDA n : /\ "name" \in DOMAIN n.e.attrs
                              /\ to_ascii_lowercase(n.e.attrs["name"]) \in names
                              /\ "content" \in DOMAIN n.e.attrs
                              /\ collapse_ws(n.e.attrs["content"]) # <<>>)
    IN  IF hit = <<>> THEN None ELSE Some(collapse_ws(hit[1].e.attrs["content"]))

dublin_core_meta(doc) == first_meta_named(doc, {"dc.title", "dcterms.title"})

\* The strategies of the page_title chain after the caller's title, in order.
title_microdata(doc) ==
    or_else(or_else(or_else(
        first_attr(doc, "[itemprop=headline]", "content"),
        first_text(doc, "[itemprop=headline]")),
        first_attr(doc, "[itemprop=name]", "content")),
        first_text(doc, "[itemprop=name]"))

title_microformats(doc) ==
    or_else(or_else(
        first_text(doc, ".h-entry .p-name"),
        first_text(doc, ".p-name")),
        first_text(doc, ".h-entry .entry-title"))

title_rdfa(doc) ==
    or_else(or_else(or_else(or_else(or_else(
        first_attr(doc, "[property=schema:headline]", "content"),
        first_text(doc, "[property=schema:headline]")),
        first_attr(doc, "[property=schema:name]", "content")),
        first_text(doc, "[property=schema:name]")),
        first_attr(doc, "[property=dcterms:title]", "content")),
        first_text(doc, "[property=dcterms:title]"))

\* resolve_page_title with the caller's title consulted after <title>.
resolve_page_title_late_override(page_title, doc) ==
    unwrap_or_default(
        or_else(or_else(or_else(or_else(or_else(or_else(or_else(or_else(
            first_text(doc, "head > title"),
            page_title),
            first_attr(doc, "head meta[property=og:title]", "content")),
            first_attr(doc, "head meta[name=twitter:title]", "content")),
            json_ld_title(doc)),
            title_microdata(doc)),
            title_microformats(doc)),
            title_rdfa(doc)),
            dublin_core_meta(doc)),
        <<>>)

\* resolve_page_title with twitter:title consulted before og:title.
resolve_page_title_twitter_first(page_title, doc) ==
    unwrap_or_default(
        or_else(or_else(or_else(or_else(or_else(or_else(or_else(or_else(
            page_title,
            first_text(doc, "head > title")),
            first_attr(doc, "head meta[name=twitter:title]", "content")),
            first_attr(doc, "head meta[property=og:title]", "content")),
            json_ld_title(doc)),
            title_microdata(doc)),
            title_microformats(doc)),
            title_rdfa(doc)),
            dublin_core_meta(doc)),
        <<>>)

resolve_page_title(page_title, doc) ==
    unwrap_or_default(
        or_else(or_else(or_else(or_else(or_else(or_else(or_else(or_else(
            page_title,
            first_text(doc, "head > title")),
            first_attr(doc, "head meta[property=og:title]", "content")),
            first_attr(doc, "head meta[name=twitter:title]", "content")),
            json_ld_title(doc)),
            title_microdata(doc)),
            title_microformats(doc)),
            title_rdfa(doc)),
            dublin_core_meta(doc)),
        <<>>)


(***************************************************************************)
(* URLs (url::Url).  A URL string is a sequence of atoms: a scheme with    *)
(* its colon, "//", a host, then path atoms.  A parsed Url is a record of  *)
(* scheme, host (None for a scheme without authority) and path.            *)
(***************************************************************************)
Schemes == {"http:", "https:", "ftp:", "mailto:", "data:"}

\* Schemes and hosts are lower-cased by the parser.
lower_atom(a) ==
    CASE a = "HTTP:" -> "http:"
      [] a = "HTTPS:" -> "https:"
      [] a = "DATA:" -> "data:"
      [] a = "X" -> "x"
      [] OTHER -> a

\* Hosts the parser rejects (an unterminated IPv6 literal).
BadHosts == {"["}

\* The schemes whose URLs have a host; the parser reads "//", "/" or nothing
\* between such a scheme and the host.
SpecialSchemes == {"http:", "https:", "ftp:"}

RECURSIVE skip_slashes(_)
skip_slashes(s) ==
    IF s # <<>> /\ Head(s) \in {"//", "/"} THEN skip_slashes(Tail(s)) ELSE s

\* Url::parse: None is Err (a relative reference or an invalid host).
url_parse(s) ==
    IF s = <<>> \/ lower_atom(s[1]) \notin Schemes THEN None
    ELSE IF lower_atom(s[1]) \in SpecialSchemes
         THEN IF skip_slashes(Tail(s)) = <<>> \/ skip_slashes(Tail(s))[1] \in BadHosts
              THEN None
              ELSE Some([scheme |-> lower_atom(s[1]),
                         host |-> Some(lower_atom(skip_slashes(Tail(s))[1])),
                         path |-> IF Len(skip_slashes(Tail(s))) = 1 THEN <<"/">>
                                  ELSE Tail(skip_slashes(Tail(s)))])
         ELSE Some([scheme |-> lower_atom(s[1]), host |-> None, path |-> Tail(s)])

\* Url::as_str / String::from(Url)
url_str(u) ==
    IF u.host = None THEN <<u.scheme>> \o u.path
    ELSE <<u.scheme, "//", u.host[1]>> \o u.path

\* Url::host_str
host_str(u) == IF u.host = None THEN None ELSE Some(<<u.host[1]>>)

\* The directory of a path: everything up to and including its last "/".
RECURSIVE dir_of(_)
dir_of(path) ==
    IF path = <<>> THEN <<"/">>
    ELSE IF path[Len(path)] = "/" THEN path
    ELSE dir_of(SubSeq(path, 1, Len(path) - 1))

\* A join that appends every reference to the directory of the base.
join_relative_appending(base, c) ==
    IF base.host = None THEN None
    ELSE Some([base EXCEPT !.path = dir_of(base.path) \o c])

\* Url::join of a reference that has no scheme: "//host/..." keeps the
\* scheme, "/..." keeps the authority, "#..." and "" keep the path, anything
\* else replaces the last path segment.  None is Err.
join_relative(base, c) ==
    IF base.host = None THEN None
    ELSE IF c = <<>> THEN Some(base)
    ELSE IF c[1] = "//"
         THEN IF Len(c) < 2 \/ c[2] \in BadHosts THEN None
              ELSE Some([base EXCEPT !.host = Some(lower_atom(c[2])),
                                     !.path = IF Len(c) = 2 THEN <<"/">>
                                              ELSE SubSeq(c, 3, Len(c))])
    ELSE IF c[1] = "/" THEN Some([base EXCEPT !.path = c])
    ELSE IF c[1] = "#" THEN Some([base EXCEPT !.path = base.path \o c])
    ELSE Some([base EXCEPT !.path = dir_of(base.path) \o c])

\* Url::join: a reference with a scheme replaces the base, unless it has the
\* base's scheme, a host-bearing one, and no "//": then what follows the
\* scheme is a reference relative to the base.
url_join(base, s) ==
    IF trim(s) # <<>> /\ lower_atom(trim(s)[1]) \in Schemes
    THEN IF /\ lower_atom(trim(s)[1]) = base.scheme
            /\ base.scheme \in SpecialSchemes
            /\ (Len(trim(s)) = 1 \/ trim(s)[2] # "//")
         THEN join_relative(base, Tail(trim(s)))
         ELSE url_parse(trim(s))
    ELSE join_relative(base, trim(s))

(***************************************************************************)
(* Responses of the network to AGENT.get(url).call() followed by           *)
(* read_to_string: st is "call_err", "read_err" or "ok".  The response to  *)
(* the page request carries the parsed page; the response to a manifest or *)
(* oEmbed request carries the body parsed as JSON (None: not JSON).        *)
(***************************************************************************)
EmptyDoc == parse_document(<<>>, <<>>)

PageCallErr == [st |-> "call_err", doc |-> EmptyDoc]

PageReadErr == [st |-> "read_err", doc |-> EmptyDoc]

PageBody(doc) == [st |-> "ok", doc |-> doc]

CallErr == [st |-> "call_err", json |-> None]

ReadErr == [st |-> "read_err", json |-> None]

JsonBody(j) == [st |-> "ok", json |-> Some(j)]

TextBody == [st |-> "ok", json |-> None]

(***************************************************************************)
(* Site-name strategies                                                    *)
(***************************************************************************)
og_site_name(doc) == first_attr(doc, "head meta[property=og:site_name]", "content")

\* The manifest URL of the page: the href of the first <link rel=manifest>
\* that has one, joined to the page URL.
manifest_url(base, doc) ==
    LET hrefs == attr_values(select(Nodes(doc), "link[rel~=manifest]"), "href")
    IN  IF hrefs = <<>> THEN None ELSE url_join(base, hrefs[1])

\* A manifest strategy that answers a failed fetch with an empty name.
manifest_site_name_default_on_failure(base, doc, resp) ==
    IF manifest_url(base, doc) = None THEN None
    ELSE IF resp.st # "ok" \/ resp.json = None THEN Some(<<>>)
    ELSE or_else(as_str(get(resp.json[1], "name")),
                 as_str(get(resp.json[1], "short_name")))

\* resp is the network's answer to the fetch of the manifest.
manifest_site_name(base, doc, resp) ==
    IF manifest_url(base, doc) = None THEN None
    ELSE IF resp.st # "ok" THEN None
    ELSE IF resp.json = None THEN None
    ELSE or_else(as_str(get(resp.json[1], "name")),
                 as_str(get(resp.json[1], "short_name")))

\* str::contains on an atom sequence: the word occurs in it.
contains(s, word) == \E i \in 1..Len(s) : s[i] = word

RECURSIVE collect_schema_site_names(_)
RECURSIVE collect_schema_site_names_each(_)
collect_schema_site_names(v) ==
    IF v.t = "obj"
    THEN (IF as_str(get(v, "@type")) # None /\ contains(as_str(get(v, "@type"))[1], "WebSite")
          THEN push_trimmed(v, "name") ELSE <<>>)
         \o (IF get(v, "publisher") # None
             THEN push_trimmed(get(v, "publisher")[1], "name")
                  \o collect_schema_site_names(get(v, "publisher")[1])
             ELSE <<>>)
         \o (IF get(v, "@graph") # None
             THEN collect_schema_site_names(get(v, "@graph")[1]) ELSE <<>>)
         \o collect_schema_site_names_each(children(v))
    ELSE IF v.t = "arr" THEN collect_schema_site_names_each(children(v))
    ELSE <<>>

collect_schema_site_names_each(vs) ==
    IF vs = <<>> THEN <<>>
    ELSE collect_schema_site_names(Head(vs)) \o collect_schema_site_names_each(Tail(vs))

schema_site_name(doc) ==
    LET ld == find_non_empty(collect_schema_site_names_each(json_ld_blocks(doc)))
        website == "[itemscope][itemtype*=schema.org/WebSite] [itemprop=name]"
        org == "[itemscope][itemtype*=schema.org/Organization] [itemprop=name]"
    IN  IF ld # None THEN ld
        ELSE or_else(or_else(or_else(or_else(or_else(
                 first_attr(doc, website, "content"),
                 first_text(doc, website)),
                 first_attr(doc, org, "content")),
                 first_text(doc, org)),
                 first_attr(doc, "[property=schema:name]", "content")),
                 first_text(doc, "[property=schema:name]"))

microformats_site_name(doc) ==
    or_else(first_text(doc, ".h-card .p-name"), first_text(doc, ".p-name"))

meta_application_name(doc) == first_attr(doc, "head meta[name=application-name]", "content")

\* Whether the site_title chain reaches manifest_site_name's fetch.
site_fetches_manifest(url, doc) ==
    og_site_name(doc) = None /\ manifest_url(url, doc) # None

\* A site_title chain that asks the schema.org strategy before og:site_name.
resolve_site_title_schema_first(url, doc, resp) ==
    unwrap_or_default(
        or_else(or_else(or_else(or_else(or_else(
            schema_site_name(doc),
            og_site_name(doc)),
            manifest_site_name(url, doc, resp)),
            microformats_site_name(doc)),
            meta_application_name(doc)),
            host_str(url)),
        <<>>)

resolve_site_title(url, doc, resp) ==
    unwrap_or_default(
        or_else(or_else(or_else(or_else(or_else(
            og_site_name(doc),
            manifest_site_name(url, doc, resp)),
            schema_site_name(doc)),
            microformats_site_name(doc)),
            meta_application_name(doc)),
            host_str(url)),
        <<>>)


(***************************************************************************)
(* Author strategies.  Each yields Option<HashSet<String>>.                *)
(***************************************************************************)
\* if out.is_empty() { None } else { Some(out) }
some_if_non_empty(set) == IF set = {} THEN None ELSE Some(set)

\* The set a strategy extends its own set with: if let Some(vals) = o { out.extend(vals) }
set_of(o) == IF o = None THEN {} ELSE o[1]

\* The set a strategy extends its own set with: if let Some(n) = o { out.insert(n) }
one_of(o) == IF o = None THEN {} ELSE {o[1]}

\* The loop shared by first_attr_all and first_attr_all_in.
attr_all_of(nodes, css, a) ==
    LET vals == attr_values(select(nodes, css), a)
    IN  some_if_non_empty({collapse_ws(vals[i]) : i \in 1..Len(vals)} \ {<<>>})

first_attr_all(doc, css, a) == attr_all_of(Nodes(doc), css, a)

first_attr_all_in(n, css, a) == attr_all_of(NodesIn(n), css, a)

\* The collapsed non-empty texts of the matches of a selector.
texts_of(nodes, css) ==
    LET m == select(nodes, css)
    IN  {collapse_ws(text_of(m[i].e)) : i \in 1..Len(m)} \ {<<>>}

meta_author(doc) == first_attr_all(doc, "head meta[name=author]", "content")

link_rel_author(doc) ==
    LET of(css) ==
            LET m == select(Nodes(doc), css)
                name(n) ==
                    LET text == collapse_ws(text_of(n.e))
                    IN  IF text # <<>> THEN {text}
                        ELSE IF attr(n.e, "title") # None
                             THEN {collapse_ws(attr(n.e, "title")[1])} \ {<<>>}
                             ELSE {}
            IN  UNION {name(m[i]) : i \in 1..Len(m)}
    IN  some_if_non_empty(of("a[rel~=author]") \cup of("link[rel~=author]"))

\* s.trim_start_matches('@')
RECURSIVE trim_start_at(_)
trim_start_at(s) ==
    IF s # <<>> /\ Head(s) = "@" THEN trim_start_at(Tail(s)) ELSE s

trim_at(s) == trim_start_at(trim(s))

looks_like_url(s) ==
    Len(s) >= 2 /\ lower_atom(s[1]) \in {"http:", "https:"} /\ s[2] = "//"

RECURSIVE extract_author_node(_)
extract_author_node(node) ==
    IF node.t = "str"
    THEN IF trim(node.s) # <<>> /\ ~looks_like_url(trim(node.s)) THEN {trim(node.s)} ELSE {}
    ELSE IF node.t = "obj"
    THEN LET n == as_str(get(node, "name"))
             gn == IF as_str(get(node, "givenName")) = None THEN <<>>
                   ELSE trim(as_str(get(node, "givenName"))[1])
             fn == IF as_str(get(node, "familyName")) = None THEN <<>>
                   ELSE trim(as_str(get(node, "familyName"))[1])
         IN  IF n # None /\ trim(n[1]) # <<>> THEN {trim(n[1])}
             ELSE IF gn # <<>> /\ fn # <<>> THEN {gn \o <<" ">> \o fn}
             ELSE IF gn # <<>> \/ fn # <<>> THEN {gn \o fn}
             ELSE {}
    ELSE IF node.t = "arr"
    THEN UNION {extract_author_node(node.m[i]) : i \in 1..Len(node.m)}
    ELSE {}

RECURSIVE collect_schema_authors(_)
collect_schema_authors(v) ==
    IF v.t = "obj"
    THEN (IF get(v, "author") # None THEN extract_author_node(get(v, "author")[1]) ELSE {})
         \cup (IF get(v, "creator") # None
               THEN extract_author_node(get(v, "creator")[1]) ELSE {})
         \cup UNION {collect_schema_authors(children(v)[i]) : i \in 1..Len(v.m)}
    ELSE IF v.t = "arr"
    THEN UNION {collect_schema_authors(v.m[i]) : i \in 1..Len(v.m)}
    ELSE {}

json_ld_authors(doc) ==
    LET ld == json_ld_blocks(doc)
    IN  some_if_non_empty(UNION {collect_schema_authors(ld[i]) : i \in 1..Len(ld)})

microdata_authors(doc) ==
    LET m == select(Nodes(doc), "[itemprop=author]")
        of(n) == ({collapse_ws(text_of(n.e))} \ {<<>>})
                 \cup set_of(first_attr_all_in(n, "[itemprop=name]", "content"))
                 \cup texts_of(NodesIn(n), "[itemprop=name]")
    IN  some_if_non_empty(
            set_of(first_attr_all(doc, "[itemprop=author]", "content"))
            \cup UNION {of(m[i]) : i \in 1..Len(m)})

rdfa_authors(doc) ==
    some_if_non_empty(
        set_of(first_attr_all(doc, "[property=schema:author]", "content"))
        \cup texts_of(Nodes(doc), "[property=schema:author]")
        \cup texts_of(Nodes(doc), "[property=schema:name]"))

microformats_authors(doc) ==
    LET of(css) ==
            LET m == select(Nodes(doc), css)
            IN  UNION {one_of(first_text_in(m[i], ".p-name"))
                       \cup ({collapse_ws(text_of(m[i].e))} \ {<<>>}) : i \in 1..Len(m)}
    IN  some_if_non_empty(of(".h-entry .p-author") \cup of(".p-author")
                          \cup of(".h-entry .author") \cup of(".author.vcard"))

og_article_authors(doc) == first_attr_all(doc, "head meta[property=article:author]", "content")

\* A twitter:creator strategy that keeps the handles as they are written.
twitter_creator_keeps_at(doc) ==
    first_attr_all(doc, "head meta[name=twitter:creator]", "content")

twitter_creator(doc) ==
    LET o == first_attr_all(doc, "head meta[name=twitter:creator]", "content")
    IN  IF o = None THEN None ELSE Some({trim_at(x) : x \in o[1]})

dublin_core_creators(doc) ==
    LET m == SelectSeq(select(Nodes(doc), "head meta"),
                 LAMBDA n : /\ "name" \in DOMAIN n.e.attrs
                            /\ to_ascii_lowercase(n.e.attrs["name"])
                                   \in {"dc.creator", "dcterms.creator"}
                            /\ "content" \in DOMAIN n.e.attrs)
    IN  some_if_non_empty({collapse_ws(m[i].e.attrs["content"]) : i \in 1..Len(m)} \ {<<>>})

address_authors(doc) ==
    LET a == texts_of(Nodes(doc), "article address")
        f == texts_of(Nodes(doc), "footer address")
    IN  IF a # {} THEN Some(a)
        ELSE IF f # {} THEN Some(f)
        ELSE some_if_non_empty(texts_of(Nodes(doc), "address"))

\* An authors chain that gathers the names of every strategy.
resolve_authors_accumulating(doc) ==
    set_of(meta_author(doc)) \cup set_of(link_rel_author(doc))
    \cup set_of(json_ld_authors(doc)) \cup set_of(microdata_authors(doc))
    \cup set_of(rdfa_authors(doc)) \cup set_of(microformats_authors(doc))
    \cup set_of(og_article_authors(doc)) \cup set_of(twitter_creator(doc))
    \cup set_of(dublin_core_creators(doc)) \cup set_of(address_authors(doc))

resolve_authors(doc) ==
    unwrap_or_default(
        or_else(or_else(or_else(or_else(or_else(or_else(or_else(or_else(or_else(
            meta_author(doc),
            link_rel_author(doc)),
            json_ld_authors(doc)),
            microdata_authors(doc)),
            rdfa_authors(doc)),
            microformats_authors(doc)),
            og_article_authors(doc)),
            twitter_creator(doc)),
            dublin_core_creators(doc)),
            address_authors(doc)),
        {})


(***************************************************************************)
(* Description strategies                                                  *)
(***************************************************************************)
meta_description(doc) == first_meta_named(doc, {"description"})

og_description(doc) == first_attr(doc, "head meta[property=og:description]", "content")

twitter_description(doc) == first_attr(doc, "head meta[name=twitter:description]", "content")

RECURSIVE collect_schema_descriptions(_)
RECURSIVE collect_schema_descriptions_each(_)
collect_schema_descriptions(v) ==
    IF v.t = "obj"
    THEN push_trimmed(v, "description") \o push_trimmed(v, "abstract")
         \o (IF get(v, "@graph") # None
             THEN collect_schema_descriptions(get(v, "@graph")[1]) ELSE <<>>)
         \o collect_schema_descriptions_each(children(v))
    ELSE IF v.t = "arr" THEN collect_schema_descriptions_each(children(v))
    ELSE <<>>

collect_schema_descriptions_each(vs) ==
    IF vs = <<>> THEN <<>>
    ELSE collect_schema_descriptions(Head(vs)) \o collect_schema_descriptions_each(Tail(vs))

schema_description_jsonld(doc) ==
    find_non_empty(collect_schema_descriptions_each(json_ld_blocks(doc)))

schema_description_microdata_rdfa(doc) ==
    or_else(or_else(or_else(or_else(or_else(
        first_attr(doc, "[itemprop=description]", "content"),
        first_text(doc, "[itemprop=description]")),
        first_attr(doc, "[itemprop=abstract]", "content")),
        first_text(doc, "[itemprop=abstract]")),
        first_attr(doc, "[property=schema:description]", "content")),
        first_text(doc, "[property=schema:description]"))

microformats_summary(doc) ==
    or_else(first_text(doc, ".h-entry .p-summary"), first_text(doc, ".p-summary"))

dublin_core_description(doc) ==
    first_meta_named(doc, {"dc.description", "dcterms.description", "dcterms.abstract"})

\* resp is the network's answer to the fetch of the manifest.
manifest_description(base, doc, resp) ==
    IF manifest_url(base, doc) = None THEN None
    ELSE IF resp.st # "ok" THEN None
    ELSE IF resp.json = None THEN None
    ELSE LET d == as_str(get(resp.json[1], "description"))
         IN  IF d # None /\ collapse_ws(d[1]) # <<>> THEN Some(collapse_ws(d[1])) ELSE None

\* The description strategies that need no fetch, in order.
description_local(doc) ==
    or_else(or_else(or_else(or_else(or_else(or_else(
        meta_description(doc),
        og_description(doc)),
        twitter_description(doc)),
        schema_description_jsonld(doc)),
        schema_description_microdata_rdfa(doc)),
        microformats_summary(doc)),
        dublin_core_description(doc))

\* Whether the description chain reaches manifest_description's fetch.
description_fetches_manifest(url, doc) ==
    description_local(doc) = None /\ manifest_url(url, doc) # None

\* A description chain that asks og:description before meta description.
resolve_description_og_first(url, doc, resp) ==
    or_else(or_else(or_else(or_else(or_else(or_else(or_else(
        og_description(doc),
        meta_description(doc)),
        twitter_description(doc)),
        schema_description_jsonld(doc)),
        schema_description_microdata_rdfa(doc)),
        microformats_summary(doc)),
        dublin_core_description(doc)),
        manifest_description(url, doc, resp))

resolve_description(url, doc, resp) ==
    or_else(description_local(doc), manifest_description(url, doc, resp))


(***************************************************************************)
(* Thumbnail strategies                                                    *)
(***************************************************************************)
\* absolutise without the scheme filter: any URL that parses is accepted.
absolutise_any_scheme(base, candidate) ==
    LET c == trim(candidate) IN
    IF c # <<>> /\ c[1] \in {"data:", "#"} THEN None
    ELSE IF url_parse(c) # None THEN Some(url_str(url_parse(c)[1]))
         ELSE IF url_join(base, c) = None THEN None
              ELSE Some(url_str(url_join(base, c)[1]))

\* absolutise without the test for data URIs and fragments.
absolutise_joins_fragments(base, candidate) ==
    LET c == trim(candidate) IN
    IF url_parse(c) # None
    THEN IF url_parse(c)[1].scheme \in {"http:", "https:"}
         THEN Some(url_str(url_parse(c)[1])) ELSE None
    ELSE IF url_join(base, c) = None THEN None
         ELSE Some(url_str(url_join(base, c)[1]))

absolutise(base, candidate) ==
    LET c == trim(candidate) IN
    IF c # <<>> /\ c[1] \in {"data:", "#"} THEN None
    ELSE IF url_parse(c) # None
         THEN IF url_parse(c)[1].scheme \in {"http:", "https:"}
              THEN Some(url_str(url_parse(c)[1])) ELSE None
         ELSE IF url_join(base, c) = None THEN None
              ELSE Some(url_str(url_join(base, c)[1]))

\* cands.into_iter().filter_map(|u| absolutise(base, &u)).next()
first_absolute(base, cands) ==
    LET ok == SelectSeq(cands, LAMBDA u : absolutise(base, u) # None)
    IN  IF ok = <<>> THEN None ELSE absolutise(base, ok[1])

\* The loop of og_image, twitter_image and the Microdata, RDFa and
\* microformats2 image strategies: cands holds, per selector in order, the
\* candidate found for it; the first that absolutises is returned.
first_image(base, cands) ==
    LET ok == SelectSeq(cands, LAMBDA u : u # None /\ absolutise(base, u[1]) # None)
    IN  IF ok = <<>> THEN None ELSE absolutise(base, ok[1][1])

og_image(base, doc) ==
    first_image(base, <<first_attr(doc, "head meta[property=og:image:secure_url]", "content"),
                        first_attr(doc, "head meta[property=og:image:url]", "content"),
                        first_attr(doc, "head meta[property=og:image]", "content")>>)

twitter_image(base, doc) ==
    first_image(base, <<first_attr(doc, "head meta[name=twitter:image]", "content"),
                        first_attr(doc, "head meta[name=twitter:image:src]", "content")>>)

push_clean(s) == IF trim(s) # <<>> THEN <<trim(s)>> ELSE <<>>

RECURSIVE push_image_value(_)
RECURSIVE push_image_value_each(_)
push_image_value(x) ==
    IF x.t = "str" THEN push_clean(x.s)
    ELSE IF x.t = "obj"
    THEN LET u == or_else(get(x, "contentUrl"), get(x, "url"))
         IN  IF as_str(u) # None THEN push_clean(as_str(u)[1]) ELSE <<>>
    ELSE IF x.t = "arr" THEN push_image_value_each(x.m)
    ELSE <<>>

push_image_value_each(xs) ==
    IF xs = <<>> THEN <<>>
    ELSE push_image_value(Head(xs)) \o push_image_value_each(Tail(xs))

is_type(m, type) ==
    LET ty == get(m, "@type")
    IN  IF ty = None THEN FALSE
        ELSE IF ty[1].t = "str" THEN ty[1].s = type
        ELSE IF ty[1].t = "arr"
             THEN \E i \in 1..Len(ty[1].m) : as_str(Some(ty[1].m[i])) = Some(type)
        ELSE FALSE

RECURSIVE collect_primary_image(_)
RECURSIVE collect_primary_image_each(_)
collect_primary_image(v) ==
    IF v.t = "obj"
    THEN (IF is_type(v, <<"WebPage">>) /\ get(v, "primaryImageOfPage") # None
          THEN push_image_value(get(v, "primaryImageOfPage")[1]) ELSE <<>>)
         \o (IF get(v, "@graph") # None
             THEN collect_primary_image(get(v, "@graph")[1]) ELSE <<>>)
         \o collect_primary_image_each(children(v))
    ELSE IF v.t = "arr" THEN collect_primary_image_each(children(v))
    ELSE <<>>

collect_primary_image_each(vs) ==
    IF vs = <<>> THEN <<>>
    ELSE collect_primary_image(Head(vs)) \o collect_primary_image_each(Tail(vs))

\* out is the candidate list so far; the result is the list after the walk.
RECURSIVE collect_generic_image(_, _)
RECURSIVE collect_generic_image_each(_, _)
collect_generic_image(v, out) ==
    IF v.t = "obj"
    THEN LET x == get(v, "image")
             o1 == IF x = None THEN out
                   ELSE IF x[1].t = "obj"
                           /\ as_bool(get(x[1], "representativeOfPage")) = Some(TRUE)
                        THEN push_image_value(x[1]) \o out
                        ELSE out \o push_image_value(x[1])
             o2 == IF get(v, "@graph") # None
                   THEN collect_generic_image(get(v, "@graph")[1], o1) ELSE o1
         IN  collect_generic_image_each(children(v), o2)
    ELSE IF v.t = "arr" THEN collect_generic_image_each(children(v), out)
    ELSE out

\* The list after the walk of the first value is computed (by the test on
\* o) before the walk of the others starts.
collect_generic_image_each(vs, out) ==
    IF vs = <<>> THEN out
    ELSE LET o == collect_generic_image(Head(vs), out)
         IN  IF o = <<>> THEN collect_generic_image_each(Tail(vs), <<>>)
             ELSE collect_generic_image_each(Tail(vs), o)

schema_primary_image_jsonld(base, doc) ==
    first_absolute(base, collect_primary_image_each(json_ld_blocks(doc)))

schema_image_jsonld(base, doc) ==
    first_absolute(base, collect_generic_image_each(json_ld_blocks(doc), <<>>))

\* The first of content, src, href, data-src that an element has with a
\* value that is not blank, trimmed.
any_attr(e) ==
    LET a == SelectSeq(<<"content", "src", "href", "data-src">>,
                 LAMBDA k : k \in DOMAIN e.attrs /\ trim(e.attrs[k]) # <<>>)
    IN  IF a = <<>> THEN None ELSE Some(trim(e.attrs[a[1]]))

url_from_any_attr(doc, css) ==
    LET hit == SelectSeq(select(Nodes(doc), css), LAMBDA n : any_attr(n.e) # None)
    IN  IF hit = <<>> THEN None ELSE any_attr(hit[1].e)

schema_primary_image_microdata_rdfa(base, doc) ==
    first_image(base, <<url_from_any_attr(doc, "[itemprop=primaryImageOfPage]"),
                        url_from_any_attr(doc, "[property=schema:primaryImageOfPage]")>>)

schema_image_microdata_rdfa(base, doc) ==
    first_image(base, <<url_from_any_attr(doc, "[itemprop=image]"),
                        url_from_any_attr(doc, "[property=schema:image]")>>)

microformats_image(base, doc) ==
    first_image(base, <<url_from_any_attr(doc, ".h-entry .u-featured"),
                        url_from_any_attr(doc, ".u-featured"),
                        url_from_any_attr(doc, ".h-entry .u-photo"),
                        url_from_any_attr(doc, ".u-photo")>>)

\* The href of the first <link rel=alternate> of an oEmbed type that has one.
oembed_href(doc) ==
    LET m == SelectSeq(select(Nodes(doc), "link[rel~=alternate]"),
                 LAMBDA n : /\ "type" \in DOMAIN n.e.attrs
                            /\ n.e.attrs["type"] \in {"application/json+oembed",
                                                      "text/xml+oembed"}
                            /\ "href" \in DOMAIN n.e.attrs)
    IN  IF m = <<>> THEN None ELSE Some(m[1].e.attrs["href"])

oembed_url(base, doc) ==
    IF oembed_href(doc) = None THEN None ELSE url_join(base, oembed_href(doc)[1])

\* resp is the network's answer to the fetch of the oEmbed endpoint.
oembed_thumbnail(base, doc, resp) ==
    IF oembed_url(base, doc) = None THEN None
    ELSE IF resp.st # "ok" THEN None
    ELSE IF contains(oembed_href(doc)[1], "json+oembed") /\ resp.json # None
    THEN LET u == or_else(as_str(get(resp.json[1], "thumbnail_url")),
                          as_str(get(resp.json[1], "url")))
         IN  IF u = None THEN None ELSE absolutise(base, u[1])
    ELSE None

amp_story_poster(base, doc) ==
    LET m == select(Nodes(doc), "amp-story")
    IN  IF m = <<>> THEN None
        ELSE LET a == SelectSeq(<<"poster-portrait-src", "poster-landscape-src",
                                  "poster-square-src">>,
                          LAMBDA k : /\ k \in DOMAIN m[1].e.attrs
                                     /\ absolutise(base, m[1].e.attrs[k]) # None)
             IN  IF a = <<>> THEN None ELSE absolutise(base, m[1].e.attrs[a[1]])

rel_image_src(base, doc) ==
    first_absolute(base, attr_values(select(Nodes(doc), "link[rel=image_src]"), "href"))

\* The thumbnail strategies before oembed_thumbnail, in order.
thumbnail_local(url, doc) ==
    or_else(or_else(or_else(or_else(or_else(or_else(
        og_image(url, doc),
        twitter_image(url, doc)),
        schema_primary_image_jsonld(url, doc)),
        schema_primary_image_microdata_rdfa(url, doc)),
        schema_image_jsonld(url, doc)),
        schema_image_microdata_rdfa(url, doc)),
        microformats_image(url, doc))

\* Whether the thumbnail chain reaches oembed_thumbnail's fetch.
thumbnail_fetches_oembed(url, doc) ==
    thumbnail_local(url, doc) = None /\ oembed_url(url, doc) # None

resolve_thumbnail(url, doc, resp) ==
    LET s == or_else(or_else(or_else(
                 thumbnail_local(url, doc),
                 oembed_thumbnail(url, doc, resp)),
                 amp_story_poster(url, doc)),
                 rel_image_src(url, doc))
    IN  IF s = None THEN None ELSE url_parse(s[1])


(***************************************************************************)
(* Entry::new                                                              *)
(***************************************************************************)
VARIABLES
    pc,       \* "idle" before the call of Entry::new, "returned" after it
    call,     \* the arguments of the call and the answers of its collaborators
    result,   \* the Result<Entry, Box<Error>> the call returned
    fetches,  \* the requests the call issued, in order
    view,     \* the EntryView that Display serialized, None before it
    rendered, \* the template and the Result of Template::render, None before it
    app       \* a pure function, its arguments and, once applied, its value

vars == <<pc, call, result, fetches, view, rendered, app>>

\* net holds the answer to each request the call can issue (page, the
\* manifest fetched for the site name, the manifest fetched for the
\* description, the oEmbed endpoint) and the outcome of
\* readability::extractor::extract (None: Err).
Net(page, manifest_site, manifest_desc, oembed, readable) ==
    [page |-> page, manifest_site |-> manifest_site, manifest_desc |-> manifest_desc,
     oembed |-> oembed, readable |-> readable]

NoEntry ==
    [url |-> [scheme |-> "", host |-> None, path |-> <<>>], page_title |-> <<>>,
     site_title |-> <<>>, authors |-> {}, full_text |-> <<>>, description |-> None,
     thumbnail |-> None]

Ok(entry) == [tag |-> "Ok", error |-> "", entry |-> entry]

Err(error) == [tag |-> "Err", error |-> error, entry |-> NoEntry]

\* The body of Entry::new after the page was fetched and read.  The id is a
\* fresh random Uuid and is left out of the record.
build_entry(url, page_title, net) ==
    LET doc == net.page.doc IN
    [url |-> url,
     page_title |-> resolve_page_title(page_title, doc),
     site_title |-> resolve_site_title(url, doc, net.manifest_site),
     authors |-> resolve_authors(doc),
     full_text |-> unwrap_or_default(net.readable, <<>>),
     description |-> resolve_description(url, doc, net.manifest_desc),
     thumbnail |-> resolve_thumbnail(url, doc, net.oembed)]

\* The requests of one call, in the order the chains issue them.
\* Requests issued by chains that are not lazy: the manifest and the oEmbed
\* endpoint are fetched whenever the page links to them.
requests_eager(url, net) ==
    LET doc == net.page.doc IN
    <<"page">>
    \o (IF net.page.st = "ok" /\ manifest_url(url, doc) # None
        THEN <<"manifest", "manifest">> ELSE <<>>)
    \o (IF net.page.st = "ok" /\ oembed_url(url, doc) # None
        THEN <<"oembed">> ELSE <<>>)

requests(url, net) ==
    LET doc == net.page.doc IN
    <<"page">>
    \o (IF net.page.st = "ok" /\ site_fetches_manifest(url, doc)
        THEN <<"manifest">> ELSE <<>>)
    \o (IF net.page.st = "ok" /\ description_fetches_manifest(url, doc)
        THEN <<"manifest">> ELSE <<>>)
    \o (IF net.page.st = "ok" /\ thumbnail_fetches_oembed(url, doc)
        THEN <<"oembed">> ELSE <<>>)

\* An Entry::new that propagates the failure of a secondary fetch.
Entry_new_strict(url, page_title, net) ==
    IF net.page.st = "call_err" THEN Err("FetchError")
    ELSE IF net.page.st = "read_err" THEN Err("ReadToStringError")
    ELSE IF \E i \in 1..Len(requests(url, net)) : requests(url, net)[i] # "page"
            /\ (net.manifest_site.st # "ok" \/ net.oembed.st # "ok")
    THEN Err("FetchError")
    ELSE Ok(build_entry(url, page_title, net))

Entry_new(url, page_title, net) ==
    IF net.page.st = "call_err" THEN Err("FetchError")
    ELSE IF net.page.st = "read_err" THEN Err("ReadToStringError")
    ELSE Ok(build_entry(url, page_title, net))

(***************************************************************************)
(* EntryView, Display and Template::render.                                *)
(***************************************************************************)
\* The code points of the characters of the strings that get compared.
CodePoints == (" " :> 32) @@ ("@" :> 64) @@ ("B" :> 66) @@ ("a" :> 97) @@ ("b" :> 98)

\* str's Ord: the first differing character decides, a proper prefix is less.
str_lt(a, b) ==
    \E k \in 0..Len(a) :
        /\ k <= Len(b)
        /\ \A i \in 1..k : a[i] = b[i]
        /\ \/ k = Len(a) /\ k < Len(b)
           \/ k < Len(a) /\ k < Len(b) /\ CodePoints[a[k + 1]] < CodePoints[b[k + 1]]

\* A sort that puts the greatest string first.
RECURSIVE sort_unstable_descending(_)
sort_unstable_descending(set) ==
    IF set = {} THEN <<>>
    ELSE LET m == CHOOSE x \in set : \A y \in set \ {x} : str_lt(y, x)
         IN  <<m>> \o sort_unstable_descending(set \ {m})

\* e.authors.iter().collect() followed by sort_unstable(): the members of
\* the HashSet in ascending order, whatever order the iteration gave.
RECURSIVE sort_unstable(_)
sort_unstable(set) ==
    IF set = {} THEN <<>>
    ELSE LET m == CHOOSE x \in set : \A y \in set \ {x} : str_lt(x, y)
         IN  <<m>> \o sort_unstable(set \ {m})

\* impl From<&Entry> for EntryView.  The id is left out as in the Entry.
EntryView_from(e) ==
    [title |-> e.page_title,
     site |-> e.site_title,
     author |-> IF sort_unstable(e.authors) = <<>> THEN None
                ELSE Some(sort_unstable(e.authors)[1]),
     authors |-> sort_unstable(e.authors),
     url |-> url_str(e.url),
     description |-> e.description,
     thumbnail |-> IF e.thumbnail = None THEN None ELSE Some(url_str(e.thumbnail[1])),
     full_text |-> e.full_text]

\* Uuid::to_string of the id that the Entry record leaves out.
IdString == <<"uuid">>

\* The keys serde writes for an EntryView: author, description and
\* thumbnail are skipped when None, authors when empty.
view_keys(v) ==
    {"title", "site", "url", "id", "full_text"}
    \cup (IF v.author # None THEN {"author"} ELSE {})
    \cup (IF v.authors # <<>> THEN {"authors"} ELSE {})
    \cup (IF v.description # None THEN {"description"} ELSE {})
    \cup (IF v.thumbnail # None THEN {"thumbnail"} ELSE {})

\* serde_json::to_string(&view), as the map from each written key to its value.
to_json(v) ==
    [k \in view_keys(v) |->
        CASE k = "title" -> v.title
          [] k = "site" -> v.site
          [] k = "author" -> v.author[1]
          [] k = "authors" -> v.authors
          [] k = "url" -> v.url
          [] k = "id" -> IdString
          [] k = "description" -> v.description[1]
          [] k = "thumbnail" -> v.thumbnail[1]
          [] k = "full_text" -> v.full_text]

\* impl Display for Entry
fmt(e) == to_json(EntryView_from(e))

\* Value::from_serialize(EntryTemplateContext::new(entry)): the entry under
\* the key entry, and the keys of the view flattened beside it.
context_value(e) == ("entry" :> e) @@ to_json(EntryView_from(e))

\* The global functions Environment::new() registers.
Globals == {"range", "dict", "debug"}

\* A template that is one variable reference: {{ var }}.
Template_new(var) == [var |-> var]

RenderOk(value) == [tag |-> "Ok", error |-> "", value |-> value]

RenderErr(error) == [tag |-> "Err", error |-> error, value |-> <<>>]

\* A render under UndefinedBehavior::Lenient: an undefined value prints as
\* the empty text.
render_lenient(template, e) ==
    IF template.var \in DOMAIN context_value(e)
    THEN RenderOk(context_value(e)[template.var])
    ELSE IF template.var \in Globals THEN RenderOk([function |-> template.var])
    ELSE RenderOk(<<>>)

\* Template::render: template_from_str accepts every {{ var }}; the lookup
\* goes to the context, then to the globals of ENVIRONMENT; printing an
\* undefined value is an error under UndefinedBehavior::Strict.
render(template, e) ==
    IF template.var \in DOMAIN context_value(e)
    THEN RenderOk(context_value(e)[template.var])
    ELSE IF template.var \in Globals THEN RenderOk([function |-> template.var])
    ELSE RenderErr("RenderFailure")

\* println!("{entry}") of an Entry that Entry::new returned.
Display ==
    /\ pc = "returned"
    /\ result.tag = "Ok"
    /\ pc' = "displayed"
    /\ view' = Some(fmt(result.entry))
    /\ UNCHANGED <<call, result, fetches, rendered, app>>

\* Template::new(..).render(&entry) on an Entry that Entry::new returned.
Render(var) ==
    /\ pc = "returned"
    /\ result.tag = "Ok"
    /\ pc' = "rendered"
    /\ rendered' = Some([template |-> Template_new(var),
                         result |-> render(Template_new(var), result.entry)])
    /\ UNCHANGED <<call, result, fetches, view, app>>

\* No pure function is under application.
NoApp == [f |-> "", args |-> <<>>, out |-> None]

New(url, page_title, net) ==
    /\ pc = "idle"
    /\ pc' = "returned"
    /\ call' = [url |-> url, title |-> page_title, net |-> net]
    /\ result' = Entry_new(url, page_title, net)
    /\ fetches' = requests(url, net)
    /\ UNCHANGED <<view, rendered, app>>


(***************************************************************************)
(* The inputs the model draws: texts, elements, documents, responses.      *)
(***************************************************************************)
\* A text of whitespace only; a text around a word that needs normalising
\* (leading, trailing and repeated whitespace); the text it normalises to.
Blank == <<" ">>

Pad(word) == <<" ", word, "\n", " ", "x", "\t">>

Norm(word) == <<word, " ", "x">>

Meta(key, name, content) ==
    El("meta", (key :> name) @@ ("content" :> content), {}, <<>>, <<>>)

\* An element that carries text and one attribute.
Tagged(tag, key, name, text) == El(tag, key :> name, {}, text, <<>>)

\* An element that carries text and one class.
Classed(tag, class, text, kids) == El(tag, NoAttrs, {class}, text, kids)

\* <script type="application/ld+json"> whose text parses to json (None: not JSON).
Script(json) ==
    [El("script", "type" :> "application/ld+json", {}, <<>>, <<>>) EXCEPT !.json = json]

InHead(e) == [where |-> "head", el |-> e]

InBody(e) == [where |-> "body", el |-> e]

\* The document holding the placed elements in their order.
MkDoc(placed) ==
    LET h == SelectSeq(placed, LAMBDA x : x.where = "head")
        b == SelectSeq(placed, LAMBDA x : x.where = "body")
    IN  parse_document([i \in 1..Len(h) |-> h[i].el], [i \in 1..Len(b) |-> b[i].el])

\* The documents of at most MaxElems top-level elements drawn from a pool.
Docs(pool) == {MkDoc(s) : s \in UNION {[1..k -> pool] : k \in 0..MaxElems}}

PageUrl == [scheme |-> "https:", host |-> Some("h"), path |-> <<"/", "p">>]

\* A URL the fetch collaborator cannot fetch: it has no host.
MailUrl == [scheme |-> "mailto:", host |-> None, path |-> <<"a">>]

NoNet(doc) == Net(PageBody(doc), CallErr, CallErr, CallErr, None)

\* One element per title strategy and selector, each with a text of its own,
\* and elements whose text is blank or whose JSON does not parse.
TitlePool ==
    {InHead(El("title", NoAttrs, {}, Pad("title"), <<>>)),
     InHead(El("title", NoAttrs, {}, Blank, <<>>)),
     InHead(Meta("property", "og:title", Pad("og"))),
     InHead(Meta("property", "og:title", Blank)),
     InHead(Meta("name", "twitter:title", Pad("tw"))),
     InHead(Meta("name", "twitter:title", Blank)),
     InHead(Script(Some(JObj(<<KV("headline", JStr(Pad("ld")))>>)))),
     InHead(Script(Some(JObj(<<KV("name", JStr(Blank))>>)))),
     InHead(Script(None)),
     InBody(El("span", ("itemprop" :> "headline") @@ ("content" :> Pad("md")), {}, <<>>, <<>>)),
     InBody(Tagged("span", "itemprop", "name", Pad("mdname"))),
     InBody(Classed("div", "h-entry", <<>>, <<Classed("span", "p-name", Pad("mf"), <<>>)>>)),
     InBody(Classed("div", "h-entry", <<>>, <<Classed("h1", "entry-title", Pad("mftitle"), <<>>)>>)),
     InBody(Classed("span", "p-name", Pad("mfbare"), <<>>)),
     InBody(Tagged("span", "property", "schema:headline", Pad("rdfa"))),
     InBody(Tagged("span", "property", "schema:name", Pad("rdfaname"))),
     InBody(El("span", ("property" :> "dcterms:title") @@ ("content" :> Pad("rdfadc")), {}, <<>>, <<>>)),
     InHead(Meta("name", "DC.Title", Pad("dc"))),
     InHead(Meta("name", "dcterms.title", Blank))}

\* The caller's title: none, the empty string, one that is not normalised.
TitleArgs == {None, Some(<<>>), Some(Pad("arg"))}

TitleDocs == Docs(TitlePool)

\* Entry::new on a page that carries title metadata.
NewTitle ==
    /\ pc = "idle"
    /\ \E d \in TitleDocs, t \in TitleArgs : New(PageUrl, t, NoNet(d))

\* The page fetch fails, or the body cannot be read.
NewFailed ==
    /\ pc = "idle"
    /\ \E u \in {PageUrl, MailUrl}, t \in TitleArgs, p \in {PageCallErr, PageReadErr} :
           /\ u = MailUrl => p = PageCallErr
           /\ New(u, t, Net(p, CallErr, CallErr, CallErr, None))

\* One element per site-name strategy and selector, each with a text of its
\* own, a blank og:site_name, and manifest links (the second has an href
\* that does not join to the page URL).
SitePool ==
    {InHead(Meta("property", "og:site_name", Pad("og"))),
     InHead(Meta("property", "og:site_name", Blank)),
     InHead(El("link", ("rel" :> {"manifest"}) @@ ("href" :> <<"/", "m.json">>), {}, <<>>, <<>>)),
     InHead(El("link", ("rel" :> {"manifest"}) @@ ("href" :> <<"//", "[">>), {}, <<>>, <<>>)),
     InHead(Script(Some(JObj(<<KV("@type", JStr(<<"WebSite">>)),
                               KV("name", JStr(Pad("ld")))>>)))),
     InHead(Script(Some(JObj(<<KV("publisher", JObj(<<KV("name", JStr(Pad("pub")))>>))>>)))),
     InHead(Script(None)),
     InBody(El("div", ("itemscope" :> <<>>) @@ ("itemtype" :> "https://schema.org/WebSite"),
               {}, <<>>, <<Tagged("span", "itemprop", "name", Pad("md"))>>)),
     InBody(Tagged("span", "property", "schema:name", Pad("rdfa"))),
     InBody(Classed("div", "h-card", <<>>, <<Classed("span", "p-name", Pad("hc"), <<>>)>>)),
     InHead(Meta("name", "application-name", Pad("app"))),
     InHead(Meta("name", "application-name", Blank))}

SiteDocs == Docs(SitePool)

\* The answers to the fetch of the manifest: the request fails, the body
\* cannot be read, the body is not JSON, or it is one of these JSON values.
ManifestJson ==
    {JObj(<<>>),
     JArr(<<>>),
     JObj(<<KV("name", JStr(Pad("m"))), KV("short_name", JStr(Pad("s")))>>),
     JObj(<<KV("name", JStr(<<>>)), KV("short_name", JStr(Pad("s")))>>),
     JObj(<<KV("name", JStr(Blank)), KV("short_name", JStr(Pad("s")))>>),
     JObj(<<KV("name", JNull), KV("short_name", JStr(Pad("s")))>>),
     JObj(<<KV("short_name", JStr(Pad("s")))>>),
     JObj(<<KV("short_name", JStr(Blank))>>),
     JObj(<<KV("name", JStr(<<"m">>))>>)}

ManifestResponses == {CallErr, ReadErr, TextBody} \cup {JsonBody(j) : j \in ManifestJson}

\* Entry::new on a page that carries site-name metadata.
NewSite ==
    /\ pc = "idle"
    /\ \E d \in SiteDocs, m \in ManifestResponses :
           New(PageUrl, None, Net(PageBody(d), m, CallErr, CallErr, None))

\* One element per author strategy and selector, each with a name of its
\* own, and values that are blank, URL-like, or carry '@' and whitespace.
AuthorsPool ==
    {InHead(Meta("name", "author", Pad("ma"))),
     InHead(Meta("name", "author", Pad("mb"))),
     InHead(Meta("name", "author", Blank)),
     InBody(El("a", "rel" :> {"author"}, {}, Pad("ra"), <<>>)),
     InHead(El("link", ("rel" :> {"author"}) @@ ("title" :> Pad("rl")), {}, <<>>, <<>>)),
     InHead(Script(Some(JObj(<<KV("author", JStr(<<" ", "ld", " ">>))>>)))),
     InHead(Script(Some(JObj(<<KV("creator",
                JArr(<<JObj(<<KV("name", JStr(<<"n">>))>>),
                       JObj(<<KV("givenName", JStr(<<"g">>)),
                              KV("familyName", JStr(<<"f">>))>>)>>))>>)))),
     InHead(Script(Some(JObj(<<KV("author", JStr(<<"https:", "//", "h">>))>>)))),
     InHead(Script(Some(JObj(<<KV("author", JStr(<<"a", " ", "\n", "b">>))>>)))),
     InHead(Script(None)),
     InBody(Meta("itemprop", "author", Pad("md"))),
     InBody(El("div", "itemprop" :> "author", {}, <<>>,
               <<Tagged("span", "itemprop", "name", Pad("mdn"))>>)),
     InBody(Tagged("span", "property", "schema:author", Pad("rdfa"))),
     InBody(Tagged("span", "property", "schema:name", Pad("rdfan"))),
     InBody(Classed("div", "h-entry", <<>>,
               <<Classed("span", "p-author", <<>>,
                     <<Classed("span", "p-name", Pad("mf"), <<>>)>>)>>)),
     InBody(El("span", NoAttrs, {"author", "vcard"}, Pad("vc"), <<>>)),
     InHead(Meta("property", "article:author", Pad("oa"))),
     InHead(Meta("name", "twitter:creator", <<"@", "jdoe">>)),
     InHead(Meta("name", "twitter:creator", <<" ", "@", "@", "y">>)),
     InHead(Meta("name", "twitter:creator", <<"@">>)),
     InHead(Meta("name", "twitter:creator", <<"@", " ", "tw">>)),
     InHead(Meta("name", "twitter:creator", Blank)),
     InHead(Meta("name", "DC.Creator", Pad("dc"))),
     InBody(El("article", NoAttrs, {}, <<>>, <<El("address", NoAttrs, {}, Pad("aa"), <<>>)>>)),
     InBody(El("footer", NoAttrs, {}, <<>>, <<El("address", NoAttrs, {}, Pad("fa"), <<>>)>>)),
     InBody(El("address", NoAttrs, {}, Pad("ad"), <<>>))}

AuthorsDocs == Docs(AuthorsPool)

\* Entry::new on a page that carries author metadata.
NewAuthors ==
    /\ pc = "idle"
    /\ \E d \in AuthorsDocs : New(PageUrl, None, NoNet(d))

\* Elements whose strategies depend on a secondary step: the manifest and
\* oEmbed fetches, a JSON-LD block that does not parse, an image URL that
\* does not absolutise; and two elements that succeed without one.
PagePool ==
    {InHead(El("link", ("rel" :> {"manifest"}) @@ ("href" :> <<"/", "m.json">>), {}, <<>>, <<>>)),
     InHead(El("link", ("rel" :> {"alternate"}) @@ ("type" :> "application/json+oembed")
                        @@ ("href" :> <<"/", "o.json">>), {}, <<>>, <<>>)),
     InHead(Script(None)),
     InHead(Meta("property", "og:image", <<"https:", "//", "[">>)),
     InHead(Meta("property", "og:image", <<"/", "i.png">>)),
     InHead(El("title", NoAttrs, {}, Pad("title"), <<>>))}

PageDocs == Docs(PagePool)

ManifestJsonBody ==
    JsonBody(JObj(<<KV("name", JStr(<<"m">>)), KV("description", JStr(Pad("md")))>>))

\* The answers of the network and of the readability extractor to one call.
PageNets(d) ==
    {Net(PageBody(d), m, md, o, r) :
        m \in {CallErr, TextBody, ManifestJsonBody},
        md \in {ReadErr, ManifestJsonBody},
        o \in {CallErr, TextBody,
               JsonBody(JObj(<<KV("thumbnail_url", JStr(<<"https:", "//", "[">>))>>)),
               JsonBody(JObj(<<KV("url", JStr(<<"/", "t.png">>))>>))},
        r \in {None, Some(<<"text">>)}}

\* Entry::new on a page whose secondary steps succeed or fail.
NewPage ==
    /\ pc = "idle"
    /\ \E d \in PageDocs : \E net \in PageNets(d) : New(PageUrl, None, net)

\* Author names that differ in case, length and a shared prefix, found by
\* several strategies, and elements that give a description and a thumbnail.
ViewPool ==
    {InHead(Meta("name", "author", <<"b">>)),
     InHead(Meta("name", "author", <<"a">>)),
     InHead(Meta("name", "author", <<"B">>)),
     InHead(Meta("name", "author", <<"a", " ", "b">>)),
     InHead(Meta("name", "author", <<"a", "b">>)),
     InHead(Script(Some(JObj(<<KV("author", JArr(<<JStr(<<"b">>), JStr(<<"a">>)>>))>>)))),
     InHead(Meta("name", "twitter:creator", <<"@", "B">>)),
     InHead(Meta("name", "twitter:creator", <<"@">>)),
     InHead(Meta("name", "description", <<"d">>)),
     InHead(Meta("property", "og:image", <<"/", "i.png">>))}

ViewDocs == Docs(ViewPool)

\* The names a template refers to: the keys of the context, two names no
\* context has, and a global of the environment.
TemplateVars ==
    {"title", "site", "author", "authors", "url", "id", "description", "thumbnail",
     "full_text", "entry", "titles", "page_title", "range"}

\* Entry::new on a page whose Entry is then displayed or rendered.
NewView ==
    /\ pc = "idle"
    /\ \E d \in ViewDocs : New(PageUrl, None, NoNet(d))

RenderAny ==
    /\ pc = "returned"
    /\ \E var \in TemplateVars : Render(var)

\* One element per description strategy and selector, each with a text of
\* its own, blank ones, and a manifest link.
DescriptionPool ==
    {InHead(Meta("name", "Description", Pad("meta"))),
     InHead(Meta("name", "description", Blank)),
     InHead(Meta("property", "og:description", Pad("og"))),
     InHead(Meta("name", "twitter:description", Pad("tw"))),
     InHead(Script(Some(JObj(<<KV("description", JStr(Pad("ld")))>>)))),
     InHead(Script(Some(JObj(<<KV("@graph",
                JArr(<<JObj(<<KV("abstract", JStr(Pad("ldab")))>>)>>))>>)))),
     InHead(Script(None)),
     InBody(El("span", ("itemprop" :> "description") @@ ("content" :> Pad("md")), {}, <<>>, <<>>)),
     InBody(Tagged("span", "itemprop", "abstract", Pad("mdab"))),
     InBody(Tagged("span", "property", "schema:description", Pad("rdfa"))),
     InBody(Classed("div", "h-entry", <<>>, <<Classed("p", "p-summary", Pad("mf"), <<>>)>>)),
     InHead(Meta("name", "DCTERMS.abstract", Pad("dc"))),
     InHead(El("link", ("rel" :> {"manifest"}) @@ ("href" :> <<"/", "m.json">>), {}, <<>>, <<>>))}

DescriptionDocs == Docs(DescriptionPool)

\* The answers to the fetch of the manifest for the description.
DescriptionResponses ==
    {CallErr, TextBody,
     JsonBody(JObj(<<>>)),
     JsonBody(JObj(<<KV("description", JStr(Blank))>>)),
     JsonBody(JObj(<<KV("description", JStr(Pad("man")))>>))}

\* Entry::new on a page that carries description metadata.
NewDescription ==
    /\ pc = "idle"
    /\ \E d \in DescriptionDocs, m \in DescriptionResponses :
           New(PageUrl, None, Net(PageBody(d), CallErr, m, CallErr, None))

\* One element per thumbnail strategy, with candidates that the absolutiser
\* rejects (a data: URI, a fragment, another scheme, an invalid host) next to
\* candidates it accepts, and an oEmbed link.
ThumbnailPool ==
    {InHead(Meta("property", "og:image", <<"data:", "x">>)),
     InHead(Meta("property", "og:image", <<"/", "og.png">>)),
     InHead(Meta("property", "og:image:secure_url", <<"HTTPS:", "//", "C", "/", "s.png">>)),
     InHead(Meta("name", "twitter:image", <<"mailto:", "a">>)),
     InHead(Meta("name", "twitter:image:src", <<" ", "tw.png">>)),
     InHead(Script(Some(JObj(<<KV("@type", JStr(<<"WebPage">>)),
                               KV("primaryImageOfPage",
                                  JArr(<<JStr(<<"#", "f">>), JStr(<<"/", "pi.png">>)>>))>>)))),
     InBody(El("img", ("itemprop" :> "image") @@ ("src" :> <<"ftp:", "//", "f", "/", "x">>),
               {}, <<>>, <<>>)),
     InBody(El("img", ("itemprop" :> "image") @@ ("src" :> <<"/", "md.png">>), {}, <<>>, <<>>)),
     InBody(El("img", "src" :> <<"http:", "//", "[">>, {"u-photo"}, <<>>, <<>>)),
     InHead(El("link", ("rel" :> {"alternate"}) @@ ("type" :> "application/json+oembed")
                       @@ ("href" :> <<"/", "o", "json+oembed">>), {}, <<>>, <<>>)),
     InBody(El("amp-story", ("poster-portrait-src" :> <<"data:", "x">>)
                            @@ ("poster-landscape-src" :> <<"//", "a", "/", "amp.png">>),
               {}, <<>>, <<>>)),
     InHead(El("link", ("rel" :> {"alternate"}) @@ ("type" :> "application/json+oembed")
                       @@ ("href" :> <<"/", "o">>), {}, <<>>, <<>>)),
     InHead(El("link", ("rel" :> {"alternate"}) @@ ("type" :> "text/xml+oembed")
                       @@ ("href" :> <<"/", "x">>), {}, <<>>, <<>>)),
     InHead(El("link", ("rel" :> {"image_src"}) @@ ("href" :> <<"#", "f">>), {}, <<>>, <<>>)),
     InHead(El("link", ("rel" :> {"image_src"}) @@ ("href" :> <<"http:", "r", "/", "rel.png">>),
               {}, <<>>, <<>>))}

ThumbnailDocs == Docs(ThumbnailPool)

\* The answers to the fetch of the oEmbed endpoint.
ThumbnailResponses ==
    {CallErr,
     JsonBody(JObj(<<KV("thumbnail_url", JStr(<<"data:", "x">>)),
                     KV("url", JStr(<<"/", "u.png">>))>>)),
     JsonBody(JObj(<<KV("url", JStr(<<"/", "oe.png">>))>>))}

\* Entry::new on a page that carries image metadata.
NewThumbnail ==
    /\ pc = "idle"
    /\ \E d \in ThumbnailDocs, o \in ThumbnailResponses :
           New(PageUrl, None, Net(PageBody(d), CallErr, CallErr, o, None))

\* The bases absolutise is called with: the URL of a page that was fetched.
AbsolutiseBases ==
    {PageUrl, [scheme |-> "http:", host |-> Some("g"), path |-> <<"/", "d", "/", "q">>]}

\* Candidates: optional leading whitespace, an optional scheme, optional
\* slashes and an optional host or path; and fragments.
AbsolutiseCandidates ==
    {lead \o sch \o sl \o rest :
        lead \in {<<>>, <<" ">>},
        sch \in {<<>>, <<"https:">>, <<"HTTP:">>, <<"data:">>, <<"mailto:">>, <<"ftp:">>},
        sl \in {<<>>, <<"//">>, <<"/">>},
        rest \in {<<>>, <<"x">>, <<"[">>, <<"x", "/", "y">>, <<"X", "/", "y", " ">>}}
    \cup {<<"#">>, <<"#", "f">>, <<" ", "#", "f">>}

\* The arguments of a call of absolutise, before the call.
InitAbsolutise ==
    /\ pc = "idle"
    /\ call = [url |-> PageUrl, title |-> None, net |-> NoNet(EmptyDoc)]
    /\ result = Err("")
    /\ fetches = <<>>
    /\ view = None
    /\ rendered = None
    /\ \E b \in AbsolutiseBases, c \in AbsolutiseCandidates :
           app = [f |-> "absolutise", args |-> <<b, c>>, out |-> None]

\* The call of absolutise: out holds what it returned.
Absolutise ==
    /\ app.f = "absolutise"
    /\ app.out = None
    /\ app' = [app EXCEPT !.out = Some(absolutise(app.args[1], app.args[2]))]
    /\ UNCHANGED <<pc, call, result, fetches, view, rendered>>

\* The characters of the strings collapse_ws is applied to.
Chars == {" ", "\n", "\t", "a", "b"}

\* The argument of a call of collapse_ws, before the call.
InitCollapse ==
    /\ pc = "idle"
    /\ call = [url |-> PageUrl, title |-> None, net |-> NoNet(EmptyDoc)]
    /\ result = Err("")
    /\ fetches = <<>>
    /\ view = None
    /\ rendered = None
    /\ \E s \in UNION {[1..n -> Chars] : n \in 0..MaxLen} :
           app = [f |-> "collapse_ws", args |-> <<s>>, out |-> None]

\* The call of collapse_ws: out holds what it returned.
Collapse ==
    /\ app.f = "collapse_ws"
    /\ app.out = None
    /\ app' = [app EXCEPT !.out = Some(collapse_ws(app.args[1]))]
    /\ UNCHANGED <<pc, call, result, fetches, view, rendered>>

\* JSON-LD blocks with titles and images at several depths, a block that is
\* not JSON, and elements of the strategies that come before JSON-LD.  The
\* members of an object are in key order.
JsonLdPool ==
    {InHead(Script(Some(JObj(<<KV("@graph",
                JArr(<<JObj(<<KV("@type", JStr(<<"WebPage">>)),
                              KV("headline", JStr(<<"T">>))>>)>>))>>)))),
     InHead(Script(Some(JObj(<<KV("mainEntity",
                JObj(<<KV("about", JObj(<<KV("name", JStr(Pad("deep")))>>))>>))>>)))),
     InHead(Script(None)),
     InBody(Script(Some(JArr(<<JObj(<<KV("alternativeHeadline", JStr(Blank))>>),
                               JObj(<<KV("@graph", JObj(<<KV("@graph",
                                   JArr(<<JObj(<<KV("name", JStr(<<"g2">>))>>)>>))>>))>>)>>)))),
     InHead(El("title", NoAttrs, {}, Pad("title"), <<>>)),
     InHead(Script(Some(JArr(<<JObj(<<KV("image", JObj(<<KV("url", JStr(<<"/", "a.png">>))>>))>>),
                               JObj(<<KV("image",
                                   JObj(<<KV("representativeOfPage", JBool(TRUE)),
                                          KV("url", JStr(<<"/", "b.png">>))>>))>>)>>)))),
     InHead(Script(Some(JObj(<<KV("image",
                JArr(<<JObj(<<KV("url", JStr(<<"/", "c.png">>))>>),
                       JObj(<<KV("representativeOfPage", JBool(TRUE)),
                              KV("url", JStr(<<"/", "d.png">>))>>)>>))>>)))),
     InHead(Script(Some(JObj(<<KV("image", JObj(<<KV("url", JStr(<<"/", "e.png">>))>>))>>)))),
     InBody(Script(Some(JObj(<<KV("image",
                JObj(<<KV("contentUrl", JStr(<<"/", "f.png">>)),
                       KV("representativeOfPage", JBool(TRUE))>>))>>)))),
     InHead(Script(Some(JObj(<<KV("image",
                JObj(<<KV("representativeOfPage", JBool(FALSE)),
                       KV("url", JStr(<<"data:", "x">>))>>))>>)))),
     InHead(Meta("property", "og:image", <<"/", "og.png">>)),
     InHead(Script(Some(JObj(<<KV("@type", JStr(<<"WebSite">>)),
                               KV("name", JStr(Pad("ws")))>>)))),
     InHead(Script(Some(JObj(<<KV("@type", JArr(<<JStr(<<"Thing">>), JStr(<<"WebSite">>)>>)),
                               KV("name", JStr(Pad("wsarr")))>>)))),
     InHead(Script(Some(JObj(<<KV("@type", JStr(<<"Organization">>)),
                               KV("name", JStr(Pad("org"))),
                               KV("publisher", JObj(<<KV("name", JStr(Pad("pub")))>>))>>))))}

JsonLdDocs == Docs(JsonLdPool)

\* Entry::new on a page that carries JSON-LD blocks.
NewJsonLd ==
    /\ pc = "idle"
    /\ \E d \in JsonLdDocs : New(PageUrl, None, NoNet(d))

\* Elements that decide which secondary fetches a call issues: the two
\* links, and metadata that satisfies the site-name, description and
\* thumbnail chains before they reach their fetch or that fails to.
FetchPool ==
    {InHead(El("link", ("rel" :> {"manifest"}) @@ ("href" :> <<"/", "m.json">>), {}, <<>>, <<>>)),
     InHead(El("link", ("rel" :> {"alternate"}) @@ ("type" :> "application/json+oembed")
                       @@ ("href" :> <<"/", "o", "json+oembed">>), {}, <<>>, <<>>)),
     InHead(Meta("property", "og:site_name", Pad("og"))),
     InHead(Meta("property", "og:site_name", Blank)),
     InHead(Meta("name", "DCTERMS.abstract", Pad("dc"))),
     InHead(Meta("property", "og:image", <<"data:", "x">>)),
     InBody(El("img", "src" :> <<"/", "mf.png">>, {"u-photo"}, <<>>, <<>>))}

FetchDocs == Docs(FetchPool)

\* The answers to the secondary fetches: each fails or succeeds.
FetchNets(d) ==
    {Net(PageBody(d), m, md, o, None) :
        m \in {CallErr, ManifestJsonBody},
        md \in {CallErr, ManifestJsonBody},
        o \in {CallErr, JsonBody(JObj(<<KV("url", JStr(<<"/", "t.png">>))>>))}}

\* Entry::new on a page whose chains reach, or do not reach, their fetches.
NewFetch ==
    /\ pc = "idle"
    /\ \E d \in FetchDocs : \E net \in FetchNets(d) : New(PageUrl, None, net)

Init ==
    /\ pc = "idle"
    /\ call = [url |-> PageUrl, title |-> None, net |-> NoNet(EmptyDoc)]
    /\ result = Err("")
    /\ fetches = <<>>
    /\ view = None
    /\ rendered = None
    /\ app = NoApp

Next ==
    \/ NewFailed
    \/ NewPage

Spec == Init /\ [][Next]_vars

NextTitle ==
    \/ NewFailed
    \/ NewTitle

SpecTitle == Init /\ [][NextTitle]_vars

NextSite ==
    \/ NewFailed
    \/ NewSite

SpecSite == Init /\ [][NextSite]_vars

NextAuthors ==
    \/ NewFailed
    \/ NewAuthors

SpecAuthors == Init /\ [][NextAuthors]_vars

NextDescription ==
    \/ NewFailed
    \/ NewDescription

SpecDescription == Init /\ [][NextDescription]_vars

NextThumbnail ==
    \/ NewFailed
    \/ NewThumbnail

SpecThumbnail == Init /\ [][NextThumbnail]_vars

NextAbsolutise == Absolutise

SpecAbsolutise == InitAbsolutise /\ [][NextAbsolutise]_vars

NextCollapse == Collapse

SpecCollapse == InitCollapse /\ [][NextCollapse]_vars

NextJsonLd ==
    \/ NewFailed
    \/ NewJsonLd

SpecJsonLd == Init /\ [][NextJsonLd]_vars

NextFetch ==
    \/ NewFailed
    \/ NewFetch

SpecFetch == Init /\ [][NextFetch]_vars

NextView ==
    \/ NewFailed
    \/ NewView
    \/ Display
    \/ RenderAny

SpecView == Init /\ [][NextView]_vars


(***************************************************************************)
(* Claims                                                                  *)
(***************************************************************************)
Returned == pc = "returned" /\ result.tag = "Ok"

TheDoc == call.net.page.doc

TheEntry == result.entry

\* The title strategies after the caller's title, in the order of the chain.
TitleStrategies(doc) ==
    <<first_text(doc, "head > title"),
      first_attr(doc, "head meta[property=og:title]", "content"),
      first_attr(doc, "head meta[name=twitter:title]", "content"),
      json_ld_title(doc),
      title_microdata(doc),
      title_microformats(doc),
      title_rdfa(doc),
      dublin_core_meta(doc)>>

\* The first success of a list of strategy results, None when all are absent.
FirstSuccess(st) ==
    IF \A i \in 1..Len(st) : st[i] = None THEN None
    ELSE st[CHOOSE i \in 1..Len(st) : st[i] # None /\ \A j \in 1..(i - 1) : st[j] = None]

\* C1: Entry::new returns an error exactly when the fetch of the page fails
\* or its body cannot be read; whatever the secondary steps do, it returns an
\* Entry.
C1_ErrIffPrimaryFails ==
    pc = "returned" =>
        /\ result.tag = "Err" <=> call.net.page.st \in {"call_err", "read_err"}
        /\ call.net.page.st = "call_err" => result.error = "FetchError"
        /\ call.net.page.st = "read_err" => result.error = "ReadToStringError"
        /\ call.net.page.st = "ok" => result.tag = "Ok"

\* C1 witness: the manifest and the oEmbed endpoint were both requested, the
\* manifest request failed, the oEmbed body was not JSON, readability gave
\* nothing, and an Entry was returned.
C1_Witness ==
    /\ Returned
    /\ \E i \in 1..Len(fetches) : fetches[i] = "manifest"
    /\ \E i \in 1..Len(fetches) : fetches[i] = "oembed"
    /\ call.net.manifest_site = CallErr
    /\ call.net.manifest_desc = ReadErr
    /\ call.net.oembed = TextBody
    /\ call.net.readable = None
    /\ TheEntry.full_text = <<>>
    /\ TheEntry.thumbnail = None

\* C3: a title supplied by the caller is the Entry's page_title, whatever
\* titles the document carries.
C3_CallerTitleWins ==
    (Returned /\ call.title # None) => TheEntry.page_title = call.title[1]

\* C3 witness: a caller's title on a document whose <title> and another title
\* strategy both succeed with other texts.
C3_Witness ==
    /\ Returned
    /\ call.title = Some(Pad("arg"))
    /\ TitleStrategies(TheDoc)[1] # None
    /\ \E i \in 2..8 : TitleStrategies(TheDoc)[i] # None
    /\ TheEntry.page_title = Pad("arg")

\* C4: without a caller's title, page_title is the value of the first title
\* strategy that succeeds, every success is a normalized non-empty string,
\* and page_title is empty exactly when every strategy is absent.
C4_FirstTitleStrategyWins ==
    (Returned /\ call.title = None) =>
        LET st == TitleStrategies(TheDoc) IN
        /\ \A i \in 1..Len(st) : st[i] # None => st[i][1] # <<>> /\ IsNormalized(st[i][1])
        /\ FirstSuccess(st) # None => TheEntry.page_title = FirstSuccess(st)[1]
        /\ TheEntry.page_title = <<>> <=> FirstSuccess(st) = None

\* C4 witness: og:title and twitter:title both succeed with different texts
\* and <title> is absent; og:title's text is the page_title.
C4_Witness ==
    /\ Returned
    /\ call.title = None
    /\ TitleStrategies(TheDoc)[1] = None
    /\ TitleStrategies(TheDoc)[2] = Some(Norm("og"))
    /\ TitleStrategies(TheDoc)[3] = Some(Norm("tw"))
    /\ TheEntry.page_title = Norm("og")

\* The site-name strategies after the manifest, in the order of the chain.
SiteStrategiesAfterManifest(url, doc) ==
    <<schema_site_name(doc),
      microformats_site_name(doc),
      meta_application_name(doc),
      host_str(url)>>

\* The normalized value of an optional string, None when it is absent or
\* normalizes to the empty string.
NonEmptyNormalized(o) ==
    IF o # None /\ collapse_ws(o[1]) # <<>> THEN Some(collapse_ws(o[1])) ELSE None

\* The contents of the og:site_name metas of the document that do not
\* normalize to the empty string, in document order.
OgSiteNames(doc) ==
    SelectSeq(attr_values(select(Nodes(doc), "head meta[property=og:site_name]"), "content"),
              LAMBDA v : collapse_ws(v) # <<>>)

HasManifestLink(doc) == select(Nodes(doc), "link[rel~=manifest]") # <<>>

ManifestFailed(resp) == resp.st # "ok" \/ resp.json = None

\* C2: with a manifest link and no og:site_name, a manifest whose fetch fails
\* or whose body is not JSON leaves site_title to the strategies after the
\* manifest, and Entry::new still returns an Entry.
C2_ManifestFailureFallsThrough ==
    (/\ pc = "returned"
     /\ call.net.page.st = "ok"
     /\ HasManifestLink(TheDoc)
     /\ OgSiteNames(TheDoc) = <<>>
     /\ ManifestFailed(call.net.manifest_site))
    => /\ result.tag = "Ok"
       /\ TheEntry.site_title =
              unwrap_or_default(FirstSuccess(SiteStrategiesAfterManifest(call.url, TheDoc)), <<>>)

\* C2 witness: the manifest was requested and the request failed, the
\* document has an application-name, and that name is the site_title.
C2_Witness ==
    /\ Returned
    /\ OgSiteNames(TheDoc) = <<>>
    /\ \E i \in 1..Len(fetches) : fetches[i] = "manifest"
    /\ call.net.manifest_site = CallErr
    /\ meta_application_name(TheDoc) = Some(Norm("app"))
    /\ TheEntry.site_title = Norm("app")

\* C5: a document whose og:site_name is not absent gets the normalized
\* og:site_name as its site_title, whatever the manifest and the other
\* site-name strategies give.
C5_OgSiteNameWins ==
    (Returned /\ OgSiteNames(TheDoc) # <<>>) =>
        TheEntry.site_title = collapse_ws(OgSiteNames(TheDoc)[1])

\* C5 witness: og:site_name together with a JSON-LD WebSite name of another
\* text; the site_title is og:site_name's.
C5_Witness ==
    /\ Returned
    /\ OgSiteNames(TheDoc) # <<>>
    /\ schema_site_name(TheDoc) = Some(Norm("ld"))
    /\ TheEntry.site_title = Norm("og")

\* C6: page_title and site_title of every Entry are normalized: no leading or
\* trailing whitespace and no two adjacent whitespace characters.
C6_TitlesNormalized ==
    Returned => IsNormalized(TheEntry.page_title) /\ IsNormalized(TheEntry.site_title)

\* The name the manifest strategy is said to give: the normalized name, else
\* the normalized short_name, None when both are absent or normalize to empty.
ManifestNameClaimed(resp) ==
    IF ManifestFailed(resp) THEN None
    ELSE LET name == NonEmptyNormalized(as_str(get(resp.json[1], "name")))
         IN  IF name # None THEN name
             ELSE NonEmptyNormalized(as_str(get(resp.json[1], "short_name")))

\* C7: no site-name strategy wins with an empty value: the manifest gives its
\* name, else its short_name when the name is absent or normalizes to empty,
\* else the later strategies decide; site_title is empty only when the URL
\* has no host.
C7_NoEmptySiteNameWins ==
    Returned =>
        /\ TheEntry.site_title = <<>> => call.url.host = None
        /\ (OgSiteNames(TheDoc) = <<>> /\ manifest_url(call.url, TheDoc) # None) =>
               TheEntry.site_title =
                   unwrap_or_default(
                       FirstSuccess(<<ManifestNameClaimed(call.net.manifest_site)>>
                                    \o SiteStrategiesAfterManifest(call.url, TheDoc)),
                       <<>>)

\* The author strategies, in the order of the chain.
AuthorStrategies(doc) ==
    <<meta_author(doc),
      link_rel_author(doc),
      json_ld_authors(doc),
      microdata_authors(doc),
      rdfa_authors(doc),
      microformats_authors(doc),
      og_article_authors(doc),
      twitter_creator(doc),
      dublin_core_creators(doc),
      address_authors(doc)>>

\* The normalized non-empty contents of the metas that match a selector.
MetaContents(doc, css) ==
    LET vals == attr_values(select(Nodes(doc), css), "content")
    IN  {collapse_ws(vals[i]) : i \in 1..Len(vals)} \ {<<>>}

C8_WitnessAllMatches ==
    /\ Returned
    /\ TheEntry.authors = {Norm("ma"), Norm("mb")}

\* C9: every member of authors is a normalized non-empty name.
C9_AuthorsNormalized ==
    Returned => \A a \in TheEntry.authors : a # <<>> /\ IsNormalized(a)

\* The document carries no author metadata but twitter:creator.
OnlyTwitterCreator(doc) ==
    /\ MetaContents(doc, "head meta[name=twitter:creator]") # {}
    /\ \A i \in 1..10 : i # 8 => AuthorStrategies(doc)[i] = None

\* A string without its first character when that is '@'.
WithoutLeadingAt(s) == IF s # <<>> /\ Head(s) = "@" THEN Tail(s) ELSE s

\* A string without the run of '@' it starts with.
WithoutLeadingAts(s) ==
    LET k == CHOOSE k \in 0..Len(s) :
                 /\ \A i \in 1..k : s[i] = "@"
                 /\ k < Len(s) => s[k + 1] # "@"
    IN  SubSeq(s, k + 1, Len(s))

\* C10 as stated: with twitter:creator the only author metadata, authors is
\* the set of its normalized contents, each without its leading '@'.
C10_LeadingAtRemoved ==
    (Returned /\ OnlyTwitterCreator(TheDoc)) =>
        TheEntry.authors =
            {WithoutLeadingAt(v) : v \in MetaContents(TheDoc, "head meta[name=twitter:creator]")}

\* C10 amended: with twitter:creator the only author metadata, authors is the
\* set of its normalized contents, each without every '@' it starts with;
\* the content "@jdoe" alone gives {"jdoe"}.
C10_LeadingAtsRemoved ==
    (Returned /\ OnlyTwitterCreator(TheDoc)) =>
        /\ TheEntry.authors =
               {WithoutLeadingAts(v) :
                    v \in MetaContents(TheDoc, "head meta[name=twitter:creator]")}
        /\ MetaContents(TheDoc, "head meta[name=twitter:creator]") = {<<"@", "jdoe">>} =>
               TheEntry.authors = {<<"jdoe">>}

\* C10 witness: the only author metadata is twitter:creator "@jdoe" and the
\* authors are {"jdoe"}.
C10_Witness ==
    /\ Returned
    /\ OnlyTwitterCreator(TheDoc)
    /\ MetaContents(TheDoc, "head meta[name=twitter:creator]") = {<<"@", "jdoe">>}
    /\ TheEntry.authors = {<<"jdoe">>}

\* Lexicographic order of two strings by the code points of their characters.
RECURSIVE LexLess(_, _)
LexLess(a, b) ==
    IF b = <<>> THEN FALSE
    ELSE IF a = <<>> THEN TRUE
    ELSE IF Head(a) = Head(b) THEN LexLess(Tail(a), Tail(b))
    ELSE CodePoints[Head(a)] < CodePoints[Head(b)]

\* C11: the serialized record lists each author once in ascending
\* lexicographic order and omits authors when the set is empty; author is
\* present exactly when the set is non-empty and is its smallest member.
C11_AuthorsSortedAuthorSmallest ==
    pc = "displayed" =>
        LET json == view[1]
            set == result.entry.authors
        IN  /\ "authors" \in DOMAIN json <=> set # {}
            /\ "author" \in DOMAIN json <=> set # {}
            /\ set # {} =>
                  /\ Len(json["authors"]) = Cardinality(set)
                  /\ {json["authors"][i] : i \in 1..Len(json["authors"])} = set
                  /\ \A i \in 1..(Len(json["authors"]) - 1) :
                         LexLess(json["authors"][i], json["authors"][i + 1])
                  /\ json["author"] \in set
                  /\ \A a \in set \ {json["author"]} : LexLess(json["author"], a)

\* C11 witness: the document lists author "b" before author "a"; the record
\* lists "a" then "b" and its author is "a".
C11_Witness ==
    /\ pc = "displayed"
    /\ Len(TheDoc.head) = 2
    /\ attr(TheDoc.head[1], "content") = Some(<<"b">>)
    /\ result.entry.authors = {<<"a">>, <<"b">>}
    /\ view[1]["authors"] = <<<<"a">>, <<"b">>>>
    /\ view[1]["author"] = <<"a">>

\* The field names the claim lists.
KnownFields ==
    {"title", "site", "author", "authors", "url", "id", "description", "thumbnail",
     "full_text", "entry"}

DescriptionStrategies(url, doc, resp) ==
    <<meta_description(doc),
      og_description(doc),
      twitter_description(doc),
      schema_description_jsonld(doc),
      schema_description_microdata_rdfa(doc),
      microformats_summary(doc),
      dublin_core_description(doc),
      manifest_description(url, doc, resp)>>

\* C12: description is the value of the first description strategy that
\* succeeds, a normalized non-empty string, and is absent exactly when no
\* strategy succeeds.
C12_FirstDescriptionStrategyWins ==
    Returned =>
        LET st == DescriptionStrategies(call.url, TheDoc, call.net.manifest_desc) IN
        /\ \A i \in 1..Len(st) : st[i] # None => st[i][1] # <<>> /\ IsNormalized(st[i][1])
        /\ TheEntry.description = FirstSuccess(st)
        /\ TheEntry.description = None <=> \A i \in 1..Len(st) : st[i] = None
        /\ TheEntry.description # None =>
               TheEntry.description[1] # <<>> /\ IsNormalized(TheEntry.description[1])
        /\ MetaContents(TheDoc, "head meta[property=og:description]") # {}
           /\ st[1] = None =>
               TheEntry.description \in
                   {Some(v) : v \in MetaContents(TheDoc, "head meta[property=og:description]")}

\* C12 witness: the meta description is blank, the manifest was fetched and
\* its description is the Entry's, normalized.
C12_Witness ==
    /\ Returned
    /\ \E i \in 1..Len(TheDoc.head) : TheDoc.head[i] = Meta("name", "description", Blank)
    /\ \E i \in 1..Len(fetches) : fetches[i] = "manifest"
    /\ call.net.manifest_desc = JsonBody(JObj(<<KV("description", JStr(Pad("man")))>>))
    /\ TheEntry.description = Some(Norm("man"))

\* The values of attribute a on the elements that css matches, in document
\* order, over the selectors in order.
AttrCandidates(doc, csss, a) ==
    IF csss = <<>> THEN <<>>
    ELSE attr_values(select(Nodes(doc), csss[1]), a)
         \o (IF Len(csss) = 1 THEN <<>>
             ELSE attr_values(select(Nodes(doc), csss[2]), a)
                  \o (IF Len(csss) = 2 THEN <<>>
                      ELSE attr_values(select(Nodes(doc), csss[3]), a)
                           \o (IF Len(csss) = 3 THEN <<>>
                               ELSE attr_values(select(Nodes(doc), csss[4]), a))))

\* The URL-bearing attribute value of each element that css matches.
AnyAttrOf(doc, css) ==
    LET hit == SelectSeq(select(Nodes(doc), css), LAMBDA n : any_attr(n.e) # None)
    IN  [i \in 1..Len(hit) |-> any_attr(hit[i].e)[1]]

\* The candidates the oEmbed answer holds: thumbnail_url, else url.
OembedCandidates(url, doc, resp) ==
    IF oembed_url(url, doc) = None \/ resp.st # "ok" \/ resp.json = None THEN <<>>
    ELSE LET u == or_else(as_str(get(resp.json[1], "thumbnail_url")),
                          as_str(get(resp.json[1], "url")))
         IN  IF u = None THEN <<>> ELSE <<u[1]>>

\* Every thumbnail candidate of a page, in strategy order and, within a
\* strategy, in candidate order.
ThumbnailCandidates(url, doc, resp) ==
    AttrCandidates(doc, <<"head meta[property=og:image:secure_url]",
                          "head meta[property=og:image:url]",
                          "head meta[property=og:image]">>, "content")
    \o AttrCandidates(doc, <<"head meta[name=twitter:image]",
                             "head meta[name=twitter:image:src]">>, "content")
    \o collect_primary_image_each(json_ld_blocks(doc))
    \o AnyAttrOf(doc, "[itemprop=primaryImageOfPage]")
    \o AnyAttrOf(doc, "[property=schema:primaryImageOfPage]")
    \o collect_generic_image_each(json_ld_blocks(doc), <<>>)
    \o AnyAttrOf(doc, "[itemprop=image]")
    \o AnyAttrOf(doc, "[property=schema:image]")
    \o AnyAttrOf(doc, ".h-entry .u-featured")
    \o AnyAttrOf(doc, ".u-featured")
    \o AnyAttrOf(doc, ".h-entry .u-photo")
    \o AnyAttrOf(doc, ".u-photo")
    \o OembedCandidates(url, doc, resp)
    \o AttrCandidates(doc, <<"amp-story">>, "poster-portrait-src")
    \o AttrCandidates(doc, <<"amp-story">>, "poster-landscape-src")
    \o AttrCandidates(doc, <<"amp-story">>, "poster-square-src")
    \o AttrCandidates(doc, <<"link[rel=image_src]">>, "href")

\* C13: thumbnail is the first candidate, in strategy order and candidate
\* order, that the absolutiser accepts: a candidate that fails never hides a
\* later one, and thumbnail is absent only when no candidate absolutises.
C13_FirstAbsolutisingCandidateWins ==
    Returned =>
        LET cands == ThumbnailCandidates(call.url, TheDoc, call.net.oembed) IN
        /\ TheEntry.thumbnail = None <=>
               \A i \in 1..Len(cands) : absolutise(call.url, cands[i]) = None
        /\ TheEntry.thumbnail # None =>
               Some(url_str(TheEntry.thumbnail[1])) = first_absolute(call.url, cands)
\* A URL string that is absolute with scheme http or https.
IsHttpUrl(u) ==
    /\ url_parse(u) # None
    /\ url_parse(u)[1].scheme \in {"http:", "https:"}
    /\ url_parse(u)[1].host # None

\* C14: every URL the absolutiser accepts for a candidate of the page, and
\* the thumbnail of the Entry, is an absolute http or https URL; a candidate
\* that is a URL of another scheme is rejected.
C14_ThumbnailIsHttp ==
    Returned =>
        LET cands == ThumbnailCandidates(call.url, TheDoc, call.net.oembed) IN
        /\ \A i \in 1..Len(cands) :
               /\ absolutise(call.url, cands[i]) # None =>
                      IsHttpUrl(absolutise(call.url, cands[i])[1])
               /\ url_parse(trim(cands[i])) # None /\ ~IsHttpUrl(trim(cands[i])) =>
                      absolutise(call.url, cands[i]) = None
        /\ TheEntry.thumbnail # None =>
               /\ TheEntry.thumbnail[1].scheme \in {"http:", "https:"}
               /\ TheEntry.thumbnail[1].host # None

\* C14 witness: the first candidate is a mailto: URL, and the thumbnail is
\* the https URL a later relative candidate resolves to.
C14_Witness ==
    /\ Returned
    /\ ThumbnailCandidates(call.url, TheDoc, call.net.oembed)
           = << <<"mailto:", "a">>, <<" ", "tw.png">> >>
    /\ TheEntry.thumbnail # None
    /\ url_str(TheEntry.thumbnail[1]) = <<"https:", "//", "h", "/", "tw.png">>

\* A call of absolutise that has returned.
Absolutised == app.f = "absolutise" /\ app.out # None

\* C15: absolutise rejects, whatever the base, a candidate whose trimmed
\* text starts with "data:" or with "#".
C15_DataAndFragmentRejected ==
    Absolutised /\ trim(app.args[2]) # <<>> /\ trim(app.args[2])[1] \in {"data:", "#"} =>
        app.out[1] = None

\* C15 witness: absolutise has rejected " #f" against the base http://g/d/q.
C15_Witness ==
    /\ Absolutised
    /\ app.args[1].scheme = "http:"
    /\ app.args[2] = <<" ", "#", "f">>
    /\ app.out = Some(None)

\* C16 as stated: an absolute http or https candidate is returned unchanged,
\* and a candidate that is not absolute is joined with the base.
C16_AbsoluteUnchanged ==
    Absolutised =>
        /\ IsHttpUrl(app.args[2]) => app.out[1] = Some(app.args[2])
        /\ url_parse(trim(app.args[2])) = None
           /\ ~(trim(app.args[2]) # <<>> /\ trim(app.args[2])[1] \in {"data:", "#"}) =>
               app.out[1] = IF url_join(app.args[1], app.args[2]) = None THEN None
                            ELSE Some(url_str(url_join(app.args[1], app.args[2])[1]))

\* C16, amended: an absolute http or https candidate is returned as the
\* parser serializes it (scheme and host in lower case, "//" before the host,
\* "/" for an empty path), whatever the base, hence unchanged when it
\* already has that form; a candidate that does not parse as absolute, and is
\* neither a data URI nor a fragment, is joined with the base, "/y" and "x"
\* replacing the path and the last segment of the base.
C16_AbsoluteSerialized ==
    Absolutised =>
        LET base == app.args[1]
            c == app.args[2]
        IN  /\ IsHttpUrl(trim(c)) =>
                /\ app.out[1] = Some(url_str(url_parse(trim(c))[1]))
                /\ \A b \in AbsolutiseBases : absolutise(b, c) = app.out[1]
                /\ url_parse(c) # None /\ url_str(url_parse(c)[1]) = c =>
                       app.out[1] = Some(c)
            /\ c = <<"https:", "//", "x", "/", "y">> => app.out[1] = Some(c)
            /\ url_parse(trim(c)) = None
               /\ ~(trim(c) # <<>> /\ trim(c)[1] \in {"data:", "#"}) =>
                   app.out[1] = IF url_join(base, c) = None THEN None
                                ELSE Some(url_str(url_join(base, c)[1]))
            /\ c = <<"/", "x", "/", "y">> =>
                   app.out[1] = Some(<<base.scheme, "//", base.host[1], "/", "x", "/", "y">>)
            /\ c = <<"x">> /\ base.path = <<"/", "d", "/", "q">> =>
                   app.out[1] = Some(<<"http:", "//", "g", "/", "d", "/", "x">>)

\* C16 witness: "HTTP://X/y " was returned as "http://x/y", and "/x/y" was
\* joined with the base.
C16_Witness ==
    /\ Absolutised
    /\ \/ /\ app.args[2] = <<"HTTP:", "//", "X", "/", "y", " ">>
          /\ app.out[1] = Some(<<"http:", "//", "x", "/", "y">>)
       \/ /\ app.args[2] = <<"/", "x", "/", "y">>
          /\ app.out[1] = Some(<<"http:", "//", "g", "/", "x", "/", "y">>)
\* The positions of the characters of s that are not whitespace, ascending.
NonWsPos(s) == SelectSeq([i \in 1..Len(s) |-> i], LAMBDA i : ~is_whitespace(s[i]))

\* out is s with every maximal whitespace run between two other characters
\* replaced by one space, the runs at both ends removed, and the other
\* characters kept in order.
IsCollapseOf(out, s) ==
    LET p == NonWsPos(s)
        q == NonWsPos(out)
    IN  /\ Len(q) = Len(p)
        /\ \A i \in 1..Len(p) : out[q[i]] = s[p[i]]
        /\ \A i \in 1..Len(out) : is_whitespace(out[i]) => out[i] = " "
        /\ p = <<>> => out = <<>>
        /\ p # <<>> => q[1] = 1 /\ q[Len(q)] = Len(out)
        /\ \A i \in 1..(Len(p) - 1) :
               q[i + 1] - q[i] = (IF p[i + 1] - p[i] = 1 THEN 1 ELSE 2)

\* C17: the output of collapse_ws has no two adjacent whitespace characters
\* and no leading or trailing whitespace; it is the input with every maximal
\* whitespace run of the interior replaced by one space and every other
\* character kept in order.
C17_CollapseWs ==
    app.f = "collapse_ws" /\ app.out # None =>
        /\ IsNormalized(app.out[1])
        /\ IsCollapseOf(app.out[1], app.args[1])

\* C17 witness: collapse_ws turned a string with leading whitespace and an
\* interior run of two whitespace characters into "a b".
C17_Witness ==
    /\ app.f = "collapse_ws"
    /\ app.args = << <<"\t", "a", "\n", " ", "b">> >>
    /\ app.out = Some(<<"a", " ", "b">>)
\* v and every value nested in it, at any depth.
RECURSIVE Descendants(_)
Descendants(v) ==
    {v} \cup UNION {Descendants(children(v)[i]) : i \in 1..Len(children(v))}

\* The JSON of the JSON-LD script elements of the page that hold JSON.
ParsedBlocks(doc) ==
    {doc.nodes[i].e.json[1] : i \in {j \in 1..Len(doc.nodes) :
        /\ doc.nodes[j].e.tag = "script"
        /\ doc.nodes[j].e.json # None}}

\* The title strings of the page's JSON-LD: the headline, name and
\* alternativeHeadline strings of every object at any depth of any block,
\* normalized, the empty ones left out.
DeepTitles(doc) ==
    LET objs == {d \in UNION {Descendants(b) : b \in ParsedBlocks(doc)} : d.t = "obj"}
    IN  UNION {{collapse_ws(o.m[i].v.s) :
                    i \in {j \in 1..Len(o.m) :
                              /\ o.m[j].k \in {"headline", "name", "alternativeHeadline"}
                              /\ o.m[j].v.t = "str"}} : o \in objs} \ {<<>>}

GraphBlock ==
    JObj(<<KV("@graph", JArr(<<JObj(<<KV("@type", JStr(<<"WebPage">>)),
                                      KV("headline", JStr(<<"T">>))>>)>>))>>)

\* C18: the JSON-LD title strategy succeeds exactly when some block that
\* parses holds a title string at any depth, in @graph or in any other
\* member, and yields one of them; it is the title when no earlier strategy
\* succeeds, "T" for the block {"@graph": [{"@type": "WebPage", "headline":
\* "T"}]}, whether or not a block that does not parse stands beside it.
C18_GraphTitlesCollected ==
    Returned =>
        LET st == TitleStrategies(TheDoc)
            early == st[1] = None /\ st[2] = None /\ st[3] = None
        IN  /\ st[4] = None <=> DeepTitles(TheDoc) = {}
            /\ st[4] # None => st[4][1] \in DeepTitles(TheDoc)
            /\ early /\ DeepTitles(TheDoc) # {} => TheEntry.page_title \in DeepTitles(TheDoc)
            /\ early /\ ParsedBlocks(TheDoc) = {GraphBlock} => TheEntry.page_title = <<"T">>

\* C18 witness: a block that is not JSON comes first, the @graph block
\* second, and the title is "T".
C18_Witness ==
    /\ Returned
    /\ TheDoc.head = <<Script(None), Script(Some(GraphBlock))>>
    /\ TheDoc.body = <<>>
    /\ TheEntry.page_title = <<"T">>

\* The values of the image members of v and of the values nested in it, in
\* traversal order, the items of an image array counted one by one.
RECURSIVE ImageValues(_)
RECURSIVE ImageValuesEach(_)
ImageValues(v) ==
    (IF v.t = "obj" /\ get(v, "image") # None
     THEN IF get(v, "image")[1].t = "arr" THEN get(v, "image")[1].m
          ELSE <<get(v, "image")[1]>>
     ELSE <<>>)
    \o ImageValuesEach(children(v))

ImageValuesEach(vs) ==
    IF vs = <<>> THEN <<>> ELSE ImageValues(Head(vs)) \o ImageValuesEach(Tail(vs))

IsRepresentative(img) ==
    img.t = "obj" /\ as_bool(get(img, "representativeOfPage")) = Some(TRUE)

\* C19: when the JSON-LD of the page holds two image candidates and only the
\* second, in traversal order, has representativeOfPage true, the generic
\* image strategy yields the URL of the second, be the two in separate
\* objects or in one image array.
C19_RepresentativeImageFirst ==
    Returned =>
        LET imgs == ImageValuesEach(json_ld_blocks(TheDoc)) IN
        Len(imgs) = 2 /\ ~IsRepresentative(imgs[1]) /\ IsRepresentative(imgs[2]) =>
            schema_image_jsonld(call.url, TheDoc)
                = first_absolute(call.url, push_image_value(imgs[2]))
\* Whether the @type of object o, a string or an array of strings, contains
\* the word.
TypeHas(o, word) ==
    /\ get(o, "@type") # None
    /\ \/ as_str(get(o, "@type")) # None /\ contains(as_str(get(o, "@type"))[1], word)
       \/ /\ get(o, "@type")[1].t = "arr"
          /\ \E i \in 1..Len(get(o, "@type")[1].m) :
                 /\ get(o, "@type")[1].m[i].t = "str"
                 /\ contains(get(o, "@type")[1].m[i].s, word)

\* The name of object o, trimmed, when it is a string that is not blank.
NameOf(o) ==
    IF o.t = "obj" /\ as_str(get(o, "name")) # None /\ trim(as_str(get(o, "name"))[1]) # <<>>
    THEN {trim(as_str(get(o, "name"))[1])} ELSE {}

\* The site names of the page's JSON-LD: the name of every object, at any
\* depth, whose @type contains "WebSite", and the name of every publisher.
DeepSiteNames(doc) ==
    LET objs == {d \in UNION {Descendants(b) : b \in ParsedBlocks(doc)} : d.t = "obj"}
    IN  UNION {NameOf(o) : o \in {x \in objs : TypeHas(x, "WebSite")}}
        \cup UNION {NameOf(get(o, "publisher")[1]) : o \in {x \in objs : get(x, "publisher") # None}}

\* C21: the JSON-LD site-name walk collects the name of every object whose
\* @type, a string or an array of strings, contains "WebSite", and every
\* publisher.name, and no other name.
C21_WebSiteNamesCollected ==
    Returned =>
        LET got == collect_schema_site_names_each(json_ld_blocks(TheDoc))
        IN  {got[i] : i \in 1..Len(got)} = DeepSiteNames(TheDoc)
\* The <link rel=alternate> elements of type application/json+oembed that
\* have an href.
JsonOembedLinks(doc) ==
    SelectSeq(select(Nodes(doc), "link[rel~=alternate]"),
        LAMBDA n : /\ "type" \in DOMAIN n.e.attrs
                   /\ n.e.attrs["type"] = "application/json+oembed"
                   /\ "href" \in DOMAIN n.e.attrs)

\* The thumbnail_url, else the url, of the JSON the oEmbed endpoint answered.
OembedAnswer(resp) ==
    IF resp.st # "ok" \/ resp.json = None THEN None
    ELSE or_else(as_str(get(resp.json[1], "thumbnail_url")), as_str(get(resp.json[1], "url")))

\* C22: the oEmbed endpoint is fetched only when the page has a link of type
\* application/json+oembed, and when it has one, the earlier strategies miss
\* and the endpoint answers JSON with thumbnail_url (or url), the oEmbed
\* strategy yields that URL absolutised against the page URL.
C22_OnlyJsonOembedFollowed ==
    Returned =>
        /\ (\E i \in 1..Len(fetches) : fetches[i] = "oembed") =>
               JsonOembedLinks(TheDoc) # <<>>
        /\ /\ JsonOembedLinks(TheDoc) # <<>>
           /\ thumbnail_local(call.url, TheDoc) = None
           /\ OembedAnswer(call.net.oembed) # None
           => oembed_thumbnail(call.url, TheDoc, call.net.oembed)
                  = absolutise(call.url, OembedAnswer(call.net.oembed)[1])
\* The thumbnail strategies that come before the oEmbed strategy, in order.
ThumbnailStrategiesBeforeOembed(url, doc) ==
    <<og_image(url, doc),
      twitter_image(url, doc),
      schema_primary_image_jsonld(url, doc),
      schema_primary_image_microdata_rdfa(url, doc),
      schema_image_jsonld(url, doc),
      schema_image_microdata_rdfa(url, doc),
      microformats_image(url, doc)>>

AllMiss(st, n) == \A i \in 1..n : st[i] = None

\* C23: the page is requested first and once; after it come, in this order
\* and each at most once, the manifest for the site name, only when
\* og:site_name is absent, the manifest for the description, only when the
\* seven earlier description strategies are absent, and the oEmbed endpoint,
\* only when the seven earlier thumbnail strategies miss; a fetch that fails
\* is followed by no second request of its strategy, and a call whose page
\* fetch fails requests nothing else.
C23_FetchesLazyOrdered ==
    pc = "returned" =>
        /\ fetches # <<>> /\ fetches[1] = "page"
        /\ \A i \in 2..Len(fetches) : fetches[i] # "page"
        /\ result.tag = "Err" => fetches = <<"page">>
        /\ Returned =>
               fetches = <<"page">>
                   \o (IF OgSiteNames(TheDoc) = <<>> /\ manifest_url(call.url, TheDoc) # None
                       THEN <<"manifest">> ELSE <<>>)
                   \o (IF /\ AllMiss(DescriptionStrategies(call.url, TheDoc,
                                                           call.net.manifest_desc), 7)
                          /\ manifest_url(call.url, TheDoc) # None
                       THEN <<"manifest">> ELSE <<>>)
                   \o (IF /\ AllMiss(ThumbnailStrategiesBeforeOembed(call.url, TheDoc), 7)
                          /\ oembed_url(call.url, TheDoc) # None
                       THEN <<"oembed">> ELSE <<>>)

\* C23 witness: both manifest fetches and the oEmbed fetch were issued, in
\* this order, and each of them failed.
C23_Witness ==
    /\ Returned
    /\ fetches = <<"page", "manifest", "manifest", "oembed">>
    /\ call.net.manifest_site = CallErr
    /\ call.net.manifest_desc = CallErr
    /\ call.net.oembed = CallErr

=============================================================================
